---- MODULE Spec2Model ----
(***************************************************************************)
(* A model of the scheduling kernel of backend/main_scheduler.py:          *)
(* run_main_scheduler and the helpers it calls (topology, order_eligible,  *)
(* static_allocation, dynamic_allocation, compute_total_work,              *)
(* compute_parallelism_bounds).  One run of run_main_scheduler is one      *)
(* behaviour: Init chooses the arguments of the call, Setup is the code    *)
(* before the loop, and the loop body is split at the places where the     *)
(* code dispatches, defers or delays one runnable.                         *)
(***************************************************************************)
EXTENDS Integers, Sequences, FiniteSets, TLC

(***************************************************************************)
(* Bounds of the model.                                                    *)
(***************************************************************************)
MaxCores == 2
MaxI == 1

\* math.inf: a value above every instant a bounded run can reach.
inf == 1000000

(***************************************************************************)
(* Small helpers on sequences and sets.                                    *)
(***************************************************************************)
Range(s) == { s[i] : i \in DOMAIN s }

Max2(a, b) == IF a >= b THEN a ELSE b

Min2(a, b) == IF a <= b THEN a ELSE b

\* max(S, default=d) and min(S, default=d) of Python
MaxOf(S, d) == IF S = {} THEN d ELSE CHOOSE x \in S : \A y \in S : y <= x

MinOf(S, d) == IF S = {} THEN d ELSE CHOOSE x \in S : \A y \in S : x <= y

RECURSIVE SumSeq(_)
SumSeq(s) == IF s = <<>> THEN 0 ELSE Head(s) + SumSeq(Tail(s))

\* a remove call that is missing: the list keeps x
RemoveKeeps(s, x) == s

\* list.remove(x): the first occurrence of x is taken out
RECURSIVE Remove(_, _)
Remove(s, x) ==
  IF s = <<>> THEN <<>>
  ELSE IF Head(s) = x THEN Tail(s)
  ELSE <<Head(s)>> \o Remove(Tail(s), x)

\* the order of Python's str comparison on the node names of the model
NameRank == [A |-> 1, B |-> 2, C |-> 3, D |-> 4]

AllNames == DOMAIN NameRank

\* lexicographic order on tuples of integers of equal length (Python tuples)
RECURSIVE TupleLess(_, _)
TupleLess(a, b) ==
  IF a = <<>> THEN FALSE
  ELSE IF Head(a) < Head(b) THEN TRUE
  ELSE IF Head(a) > Head(b) THEN FALSE
  ELSE TupleLess(Tail(a), Tail(b))

\* insert x in the sorted sequence s after every element whose key is <= key[x]
RECURSIVE InsertByKey(_, _, _)
InsertByKey(s, x, key) ==
  IF s = <<>> THEN <<x>>
  ELSE IF TupleLess(key[x], key[Head(s)]) THEN <<x>> \o s
  ELSE <<Head(s)>> \o InsertByKey(Tail(s), x, key)

\* sorted(seq, key=...): a stable sort
RECURSIVE SortedByKey(_, _)
SortedByKey(s, key) ==
  IF s = <<>> THEN <<>>
  ELSE InsertByKey(SortedByKey(SubSeq(s, 1, Len(s) - 1), key), s[Len(s)], key)

\* a list of integers left in the order it has
UnsortedInts(s) == s

\* sorted(list of integers)
SortedInts(s) == SortedByKey(s, [x \in Range(s) |-> <<x>>])

\* the node names of the model in ascending order
NameSeq == <<"A", "B", "C", "D">>

\* sorted(names of the set S)
SortedNames(S) == SelectSeq(NameSeq, LAMBDA x : x \in S)

(***************************************************************************)
(* The input graph.  runnables is the dict of the call in insertion order: *)
(* a sequence of records [name, type, execution_time, period, priority,    *)
(* deps]; deps is the list of predecessor names (no name twice).           *)
(***************************************************************************)
NamesOf(r) == [i \in DOMAIN r |-> r[i].name]

NameSet(r) == { r[i].name : i \in DOMAIN r }

Props(r, n) == r[CHOOSE i \in DOMAIN r : r[i].name = n]

\* successors[dep] and predecessors[name]; edges to unknown names are ignored
topology(r) ==
  [successors |->
     [d \in NameSet(r) |->
        SelectSeq(NamesOf(r), LAMBDA n : d \in Range(Props(r, n).deps))],
   predecessors |->
     [n \in NameSet(r) |->
        SelectSeq(Props(r, n).deps, LAMBDA d : d \in NameSet(r))]]

\* str.lower() on the policy names of the model
Lower(p) ==
  CASE p = "FCFS" -> "fcfs"
    [] p = "PAS" -> "pas"
    [] p = "Static" -> "static"
    [] p = "Dynamic" -> "dynamic"
    [] OTHER -> p

\* the pas key with the priority ascending: p_i in the place of -p_i
OrderKeyAscending(r, etaOf, policy, n) ==
  IF Lower(policy) = "pas"
  THEN <<Props(r, n).priority, etaOf[n], NameRank[n]>>
  ELSE <<etaOf[n], NameRank[n]>>

\* sort keys that do not end in the name
OrderKeyWithoutName(r, etaOf, policy, n) ==
  IF Lower(policy) = "pas"
  THEN <<0 - Props(r, n).priority, etaOf[n]>>
  ELSE <<etaOf[n]>>

\* the sort key of order_eligible
OrderKey(r, etaOf, policy, n) ==
  IF Lower(policy) = "pas"
  THEN <<0 - Props(r, n).priority, etaOf[n], NameRank[n]>>
  ELSE <<etaOf[n], NameRank[n]>>

order_eligible(eligible, r, etaOf, policy) ==
  SortedByKey(eligible, [n \in Range(eligible) |-> OrderKey(r, etaOf, policy, n)])

\* a static allocation that leaves N_min out of c_alloc
static_allocation_pmax(numCores, pMax, nMin) ==
  [i \in 1..Max2(1, Min2(numCores, pMax)) |-> i - 1]

\* a static allocation that admits every core
static_allocation_all(numCores, pMax, nMin) ==
  [i \in 1..numCores |-> i - 1]

static_allocation(numCores, pMax, nMin) ==
  LET c_alloc == Max2(1, Min2(numCores, Min2(pMax, nMin)))
  IN [i \in 1..c_alloc |-> i - 1]

\* a dynamic allocation that admits the idle cores of the highest indices
dynamic_allocation_highest(idle, eligible) ==
  SubSeq(idle, Len(idle) - Min2(Len(idle), Len(eligible)) + 1, Len(idle))

\* a dynamic allocation that keeps one idle core in reserve
dynamic_allocation_sparing(idle, eligible) ==
  SubSeq(idle, 1, Min2(Max2(Len(idle) - 1, 0), Len(eligible)))

\* a dynamic allocation that admits half of the cores it should, rounded up
dynamic_allocation_halved(idle, eligible) ==
  SubSeq(idle, 1, (Min2(Len(idle), Len(eligible)) + 1) \div 2)

\* a dynamic allocation that admits one idle core at most
dynamic_allocation_single(idle, eligible) ==
  SubSeq(idle, 1, Min2(Len(idle), Min2(1, Len(eligible))))

\* a dynamic allocation that admits core 0 whether it is idle or not
dynamic_allocation_busy(idle, eligible) ==
  IF eligible = <<>> THEN <<>> ELSE <<0>>

dynamic_allocation(idle, eligible) ==
  SubSeq(idle, 1, Min2(Len(idle), Len(eligible)))

compute_total_work(r) == SumSeq([i \in DOMAIN r |-> r[i].execution_time])

(***************************************************************************)
(* compute_parallelism_bounds.  order is the order in which Python         *)
(* iterates over the set remaining_runnables (it depends on the hashes of  *)
(* the names, so every order of the names is possible).                    *)
(***************************************************************************)
\* a pass without the test that every predecessor has its path length: a
\* predecessor not yet visited counts as path length 0
RECURSIVE PathPassUnguarded(_, _, _, _)
PathPassUnguarded(r, pl, order, i) ==
  IF i > Len(order) THEN pl
  ELSE
    LET name == order[i]
        preds == topology(r).predecessors[name]
        plOf(q) == IF q \in DOMAIN pl THEN pl[q] ELSE 0
    IN IF name \notin DOMAIN pl
       THEN PathPassUnguarded(r,
                     pl @@ (name :> MaxOf({ plOf(preds[k]) + Props(r, preds[k]).execution_time
                                            : k \in DOMAIN preds }, 0)),
                     order, i + 1)
       ELSE PathPassUnguarded(r, pl, order, i + 1)

\* one "for name in list(remaining_runnables)" pass, from position i of order;
\* pl is runnable_path_length, its domain the names already removed
RECURSIVE PathPass(_, _, _, _)
PathPass(r, pl, order, i) ==
  IF i > Len(order) THEN pl
  ELSE
    LET name == order[i]
        preds == topology(r).predecessors[name]
    IN IF name \notin DOMAIN pl /\ \A k \in DOMAIN preds : preds[k] \in DOMAIN pl
       THEN PathPass(r,
                     pl @@ (name :> MaxOf({ pl[preds[k]] + Props(r, preds[k]).execution_time
                                            : k \in DOMAIN preds }, 0)),
                     order, i + 1)
       ELSE PathPass(r, pl, order, i + 1)

\* the while loop: passes until nothing remains or a pass makes no progress
RECURSIVE PathLengths(_, _, _)
PathLengths(r, pl, order) ==
  IF DOMAIN pl = NameSet(r) THEN pl
  ELSE LET next == PathPass(r, pl, order, 1)
       IN IF DOMAIN next = DOMAIN pl THEN pl ELSE PathLengths(r, next, order)

runnable_path_length(r, order) == PathLengths(r, [x \in {} |-> 0], order)

\* a critical path that leaves out the execution time of its last node
T_CP_StartOfLast(r, order) ==
  LET pl == runnable_path_length(r, order)
  IN MaxOf({ pl[n] : n \in DOMAIN pl }, 0)

T_CP(r, order) ==
  LET pl == runnable_path_length(r, order)
  IN MaxOf({ pl[n] + Props(r, n).execution_time : n \in DOMAIN pl }, 0)

\* the while loop of calculate_max_parallelism
RECURSIVE MaxParallelismLoop(_, _, _, _)
MaxParallelismLoop(r, eligible, completed, max_parallelism) ==
  IF eligible = {} THEN Max2(max_parallelism, 1)
  ELSE
    LET done == completed \cup eligible
        succs == UNION { Range(topology(r).successors[e]) : e \in eligible }
        newly_eligible ==
          { s \in succs : s \notin done /\ Range(Props(r, s).deps) \subseteq done }
    IN MaxParallelismLoop(r, newly_eligible, done,
                          Max2(max_parallelism, Cardinality(newly_eligible)))

\* the approximation the docstring names: the number of sources
calculate_max_parallelism_sources(r) ==
  Max2(1, Cardinality({ n \in NameSet(r) :
                          Props(r, n).type = "periodic" \/ Props(r, n).deps = <<>> }))

calculate_max_parallelism(r) ==
  LET eligible == { n \in NameSet(r) :
                       Props(r, n).type = "periodic" \/ Props(r, n).deps = <<>> }
  IN MaxParallelismLoop(r, eligible, {}, Cardinality(eligible))

\* (total_work, critical_path) at which the double-precision quotient
\* (0.9 * p) / (s * (1.0 - 0.9)) is exactly the integer 9 * (W - T_CP) / T_CP;
\* at every other pair with an integer quotient and total_work <= 21 the
\* rounding of 1.0 - 0.9 leaves it just above the integer
RoundsExact == { <<10, 9>>, <<11, 9>>, <<14, 9>>, <<20, 18>> }

\* N_min = ceil((eps * p) / (s * (1 - eps))) with eps = 0.9, in double precision
calculate_min_core_count(numCores, total_work, critical_path) ==
  IF total_work <= 0 THEN 1
  ELSE IF critical_path <= 0 THEN numCores
  ELSE
    LET cp == Min2(critical_path, total_work)
        num == 9 * (total_work - cp)
        q == num \div cp
        ceil == IF num % cp # 0 THEN q + 1
                ELSE IF q > 0 /\ <<total_work, cp>> \notin RoundsExact THEN q + 1
                ELSE q
    IN Max2(1, ceil)

compute_parallelism_bounds(r, numCores, order) ==
  [p_max |-> calculate_max_parallelism(r),
   n_min |-> calculate_min_core_count(numCores, compute_total_work(r), T_CP(r, order))]

(***************************************************************************)
(* The state of one call of run_main_scheduler.                            *)
(***************************************************************************)
VARIABLES
  runnables,            \* argument: the graph
  num_cores,            \* argument
  scheduling_policy,    \* argument
  allocation_policy,    \* argument
  I,                    \* argument: <<>> is None, <<k>> is the integer k
  pc,                   \* position in the function
  successors,
  predecessors,
  T_end,
  p_max,
  n_min,
  available_cores,
  idle_cores,
  tau,
  phi,
  next_active,
  eta,
  start,
  running,              \* (name, eligible_time) -> (finish_time, core)
  schedule,             \* sequence of ScheduleEntry
  tokens,
  total_delay,
  eligible_event,       \* locals of the loop body
  ordered_eligible_periodic,
  ordered_eligible_event,
  eligible,
  sorted_available_cores,
  idx,                  \* position of the for loop in progress
  finish_time,          \* the returned makespan
  admissible,           \* history: len(available_cores) after line 282
  prev,                 \* what a sweep over the cores kept of the call before:
                        \* <<>> or <<its num_cores, c_alloc and result>>
  \* a SharedExecutionLog object and the threads that use it (shared_log.py)
  log,                  \* self.log: the deque, oldest entry first
  max_size,             \* the maxlen of the deque
  lock,                 \* self.lock: 0 when free, else the thread that holds it
  callbacks,            \* self.callbacks: what each registered callback does
  frames,               \* per thread, its stack of calls into the log
  returned,             \* per thread, the list its last get_log returned
  started,              \* per thread, the number of appends it has called
  stored,               \* history: every entry put into the deque, in order
  invoked,              \* history: every <<callback, entry>> invocation, in order
  \* one call of run_fcfs_affinity (fcfs/fcfs.py)
  fcfs_runnables,       \* argument runnables
  fcfs_num_cores,       \* argument num_cores
  simulation_time,      \* argument
  fcfs_pc,              \* position in the function
  event_queue,          \* the heap, as the set of its tuples
  core_time,
  execution_log_core,
  completed_instances,
  event_task_instance_counter,
  fcfs_result           \* what the call returned: the merged log and max(core_time)

\* the shared log and its threads
logvars == <<log, max_size, lock, callbacks, frames, returned, started, stored, invoked>>

\* the call of run_fcfs_affinity
fcfsvars == <<fcfs_runnables, fcfs_num_cores, simulation_time, fcfs_pc, event_queue,
              core_time, execution_log_core, completed_instances,
              event_task_instance_counter, fcfs_result>>

\* the objects run_main_scheduler has no reference to
outside == <<logvars, fcfsvars>>

\* the arguments of the call, and prev and the other objects, which no step of
\* the call touches
args == <<runnables, num_cores, scheduling_policy, allocation_policy, I, prev, outside>>

consts == <<successors, predecessors, T_end, p_max, n_min>>

locals == <<eligible_event, ordered_eligible_periodic, ordered_eligible_event,
            eligible, sorted_available_cores, idx, admissible>>

vars == <<runnables, num_cores, scheduling_policy, allocation_policy, I, pc,
          successors, predecessors, T_end, p_max, n_min, available_cores, idle_cores, tau, phi,
          next_active, eta, start, running, schedule, tokens, total_delay,
          eligible_event, ordered_eligible_periodic, ordered_eligible_event,
          eligible, sorted_available_cores, idx, finish_time, admissible, prev,
          logvars, fcfsvars>>

ScheduleEntry(n, s, f, c, e) ==
  [runnable |-> n, start_time |-> s, finish_time |-> f, core |-> c, eligible_time |-> e]

\* every order in which the set of names may be iterated
Orders(S) == { q \in [1..Cardinality(S) -> S] : Range(q) = S }

\* an empty dict
EmptyDict == [x \in {} |-> 0]

\* range(n) as a list
RangeList(n) == [i \in 1..n |-> i - 1]

(***************************************************************************)
(* Lines 189-221: everything before the loop.                              *)
(***************************************************************************)
Setup ==
  /\ pc = "start"
  /\ \E order \in Orders(NameSet(runnables)) :
       LET total_work == compute_total_work(runnables)
           b == compute_parallelism_bounds(runnables, num_cores, order)
           names == NameSet(runnables)
           topo == topology(runnables)
           isPhi(n) == Props(runnables, n).type = "periodic" /\ Props(runnables, n).period > 0
       IN /\ successors' = topo.successors
          /\ predecessors' = topo.predecessors
          /\ T_end' = IF I = <<>> THEN 2 * total_work ELSE I[1] * total_work
          /\ p_max' = b.p_max
          /\ n_min' = b.n_min
          /\ available_cores' =
               IF Lower(allocation_policy) = "static"
               THEN static_allocation(num_cores, b.p_max, b.n_min)
               ELSE RangeList(num_cores)
          /\ idle_cores' = RangeList(num_cores)
          /\ tau' = 0
          /\ phi' = [n \in { m \in names : isPhi(m) } |-> 0]
          /\ next_active' = 0
          /\ eta' = [n \in { m \in names : ~isPhi(m) } |-> 0]
          /\ start' = [n \in { m \in names : ~isPhi(m) } |-> 0]
          /\ running' = EmptyDict
          /\ schedule' = <<>>
          /\ tokens' = [e \in { <<q, n>> \in names \X names :
                                    q \in Range(topo.predecessors[n]) } |-> 0]
          /\ total_delay' = 0
  /\ pc' = "head"
  /\ UNCHANGED <<args, locals, finish_time>>

(***************************************************************************)
(* The loop body, lines 264-340.                                           *)
(***************************************************************************)
get_periodic_at_tau(t) == SortedNames({ n \in DOMAIN phi : phi[n] = t })

\* an eligibility test that does not look at the tokens
get_event_at_tau_untokened(t) ==
  SelectSeq(NamesOf(runnables),
            LAMBDA n : /\ Props(runnables, n).type # "periodic"
                       /\ start[n] <= t)

get_event_at_tau(t) ==
  SelectSeq(NamesOf(runnables),
            LAMBDA n : /\ Props(runnables, n).type # "periodic"
                       /\ \A k \in DOMAIN predecessors[n] :
                            tokens[<<predecessors[n][k], n>>] > 0
                       /\ start[n] <= t)

\* min(finish for finish, _ in running.values()), None as the default
RunningFinishes(run) == { run[k][1] : k \in DOMAIN run }

\* where the body goes once run_periodic_now has returned: line 286 and the
\* for loop over the events, which an empty list ends at once
EnterEvents(avail, events) ==
  /\ sorted_available_cores' = SortedInts(avail)
  /\ idx' = 1
  /\ pc' = IF events = <<>> THEN "advance" ELSE "event"

\* lines 271-284 for the events ev collected at line 266 and the instant t
\* at which the step is taken
LoopHeadAt(ev, t) ==
  LET periodic_at_tau == get_periodic_at_tau(t)
      op == order_eligible(periodic_at_tau, runnables,
                           [e \in Range(periodic_at_tau) |-> t], scheduling_policy)
      oe == order_eligible(ev, runnables,
                           [e \in Range(ev) |-> eta[e]], scheduling_policy)
      avail == IF Lower(allocation_policy) = "dynamic"
               THEN dynamic_allocation(idle_cores, op \o oe)
               ELSE available_cores
  IN /\ eligible_event' = ev
     /\ tau' = t
     /\ ordered_eligible_periodic' = op
     /\ ordered_eligible_event' = oe
     /\ eligible' = op \o oe
     /\ available_cores' = avail
     /\ admissible' = Len(avail)
     /\ IF op = <<>>
        THEN EnterEvents(avail, oe)
        ELSE /\ pc' = "periodic"
             /\ idx' = 1
             /\ UNCHANGED sorted_available_cores
     /\ UNCHANGED <<args, consts, idle_cores, phi, next_active, eta,
                    start, running, schedule, tokens, total_delay, finish_time>>

\* the loop head with lines 268-269 removed: tau stays where the step
\* before left it
LoopHeadWithoutJump ==
  /\ pc = "head"
  /\ tau < T_end
  /\ LoopHeadAt(get_event_at_tau(tau), tau)

\* a loop head that jumps to next_active whatever num_cores is
LoopHeadJumpingAnyCores ==
  /\ pc = "head"
  /\ tau < T_end
  /\ LET ev == get_event_at_tau(tau)
     IN LoopHeadAt(ev, IF Len(ev) = 0 THEN next_active ELSE tau)

\* lines 264-284: the loop guard holds; collect, order, allocate
LoopHead ==
  /\ pc = "head"
  /\ tau < T_end
  /\ LET ev == get_event_at_tau(tau)
         t == IF Len(ev) = 0 /\ num_cores <= 1 THEN next_active ELSE tau
         periodic_at_tau == get_periodic_at_tau(t)
         op == order_eligible(periodic_at_tau, runnables,
                              [e \in Range(periodic_at_tau) |-> t], scheduling_policy)
         oe == order_eligible(ev, runnables,
                              [e \in Range(ev) |-> eta[e]], scheduling_policy)
         avail == IF Lower(allocation_policy) = "dynamic"
                  THEN dynamic_allocation(idle_cores, op \o oe)
                  ELSE available_cores
     IN /\ eligible_event' = ev
        /\ tau' = t
        /\ ordered_eligible_periodic' = op
        /\ ordered_eligible_event' = oe
        /\ eligible' = op \o oe
        /\ available_cores' = avail
        /\ admissible' = Len(avail)
        /\ IF op = <<>>
           THEN EnterEvents(avail, oe)
           ELSE /\ pc' = "periodic"
                /\ idx' = 1
                /\ UNCHANGED sorted_available_cores
  /\ UNCHANGED <<args, consts, idle_cores, phi, next_active, eta,
                 start, running, schedule, tokens, total_delay, finish_time>>

\* what follows one turn of the for loop of run_periodic_now
NextPeriodic(avail) ==
  IF idx = Len(ordered_eligible_periodic)
  THEN EnterEvents(avail, ordered_eligible_event)
  ELSE /\ idx' = idx + 1
       /\ pc' = "periodic"
       /\ UNCHANGED sorted_available_cores

\* a release that finds no admissible core is dropped: n leaves phi
PeriodicDeferDropping ==
  /\ pc = "periodic"
  /\ available_cores = <<>>
  /\ phi' = [m \in DOMAIN phi \ {ordered_eligible_periodic[idx]} |-> phi[m]]
  /\ NextPeriodic(available_cores)
  /\ UNCHANGED <<args, consts, available_cores, idle_cores, tau,
                 next_active, eta, start, running, schedule, tokens, total_delay,
                 eligible_event, ordered_eligible_periodic,
                 ordered_eligible_event, eligible, finish_time, admissible>>

\* lines 236-244: no admissible core, the release is deferred
PeriodicDefer ==
  /\ pc = "periodic"
  /\ available_cores = <<>>
  /\ LET n == ordered_eligible_periodic[idx]
         tx == IF DOMAIN running # {}
               THEN MinOf(RunningFinishes(running), 0) - tau
               ELSE 0
     IN /\ total_delay' = total_delay + tx
        /\ phi' = [phi EXCEPT ![n] = tau + tx]
  /\ NextPeriodic(available_cores)
  /\ UNCHANGED <<args, consts, available_cores, idle_cores, tau,
                 next_active, eta, start, running, schedule, tokens,
                 eligible_event, ordered_eligible_periodic,
                 ordered_eligible_event, eligible, finish_time, admissible>>

\* the next release kept only if it would finish by T_end
PhiAfterDispatchWithinHorizon(n, t) ==
  LET T_i == Props(runnables, n).period
  IN IF T_i > 0 /\ t + T_i + Props(runnables, n).execution_time <= T_end
     THEN [phi EXCEPT ![n] = t + T_i]
     ELSE [m \in DOMAIN phi \ {n} |-> phi[m]]

\* the next release taken execution_time, not period, after the dispatch
PhiAfterDispatchExec(n, t) ==
  LET T_i == Props(runnables, n).execution_time
  IN IF T_i > 0 /\ t + T_i < T_end
     THEN [phi EXCEPT ![n] = t + T_i]
     ELSE [m \in DOMAIN phi \ {n} |-> phi[m]]

\* lines 258-261: the next release of n after a dispatch at t
PhiAfterDispatch(n, t) ==
  LET T_i == Props(runnables, n).period
  IN IF T_i > 0 /\ t + T_i < T_end
     THEN [phi EXCEPT ![n] = t + T_i]
     ELSE [m \in DOMAIN phi \ {n} |-> phi[m]]

\* lines 245-261: the release is dispatched on the smallest admissible core
PeriodicDispatch ==
  /\ pc = "periodic"
  /\ available_cores # <<>>
  /\ LET n == ordered_eligible_periodic[idx]
         assigned_core == MinOf(Range(available_cores), 0)
         finish == tau + Props(runnables, n).execution_time
         avail == Remove(available_cores, assigned_core)
     IN /\ available_cores' = avail
        /\ idle_cores' = Remove(idle_cores, assigned_core)
        /\ running' = [k \in DOMAIN running \cup {<<n, tau>>} |->
                         IF k = <<n, tau>> THEN <<finish, assigned_core>> ELSE running[k]]
        /\ schedule' = Append(schedule, ScheduleEntry(n, tau, finish, assigned_core, tau))
        /\ phi' = PhiAfterDispatch(n, tau)
        /\ NextPeriodic(avail)
  /\ UNCHANGED <<args, consts, tau, next_active, eta, start, tokens,
                 total_delay, eligible_event, ordered_eligible_periodic,
                 ordered_eligible_event, eligible, finish_time, admissible>>

\* a body that calls run_periodic_now after the for loop over the events too
NextEventThenPeriodic ==
  IF idx = Len(ordered_eligible_event)
  THEN /\ pc' = IF ordered_eligible_periodic = <<>> THEN "advance" ELSE "periodic"
       /\ idx' = 1
  ELSE /\ idx' = idx + 1
       /\ pc' = "event"

\* what follows one turn of the for loop over ordered_eligible_event
NextEvent ==
  IF idx = Len(ordered_eligible_event)
  THEN /\ pc' = "advance"
       /\ UNCHANGED idx
  ELSE /\ idx' = idx + 1
       /\ pc' = "event"

\* lines 288-290: no admissible core is left, the for loop is left
EventNoCore ==
  /\ pc = "event"
  /\ sorted_available_cores = <<>>
  /\ start' = [start EXCEPT ![ordered_eligible_event[idx]] = tau]
  /\ pc' = "advance"
  /\ UNCHANGED <<args, consts, available_cores, idle_cores, tau, phi,
                 next_active, eta, running, schedule, tokens, total_delay,
                 locals, finish_time>>

\* lines 292-295: the event would finish after T_end, the for loop is left
EventHorizon ==
  /\ pc = "event"
  /\ sorted_available_cores # <<>>
  /\ tau + Props(runnables, ordered_eligible_event[idx]).execution_time > T_end
  /\ start' = [start EXCEPT ![ordered_eligible_event[idx]] = tau]
  /\ pc' = "advance"
  /\ UNCHANGED <<args, consts, available_cores, idle_cores, tau, phi,
                 next_active, eta, running, schedule, tokens, total_delay,
                 locals, finish_time>>

\* a rule that lets an event finish one tick after the next activation
DelayRuleOneTickLate(name, st) ==
  /\ DOMAIN phi # {}
  /\ st + Props(runnables, name).execution_time > next_active + 1
  /\ st <= tau

\* line 297, after start[name] = tau of line 288
DelayRuleApplies(name, st) ==
  /\ DOMAIN phi # {}
  /\ st + Props(runnables, name).execution_time > next_active
  /\ st <= tau

\* min(phi.keys())
FirstPhiKey == Head(SortedNames(DOMAIN phi))

\* lines 297-302: the event is moved behind the next periodic activation
EventDelay ==
  /\ pc = "event"
  /\ sorted_available_cores # <<>>
  /\ LET name == ordered_eligible_event[idx]
         t_i == Props(runnables, name).execution_time
     IN /\ tau + t_i <= T_end
        /\ DelayRuleApplies(name, tau)
        /\ LET delayed_start_time ==
                 next_active + Props(runnables, FirstPhiKey).execution_time
           IN /\ total_delay' = total_delay + (delayed_start_time - tau)
              /\ start' = [start EXCEPT ![name] = delayed_start_time]
  /\ NextEvent
  /\ UNCHANGED <<args, consts, available_cores, idle_cores, tau, phi,
                 next_active, eta, running, schedule, tokens, eligible_event,
                 ordered_eligible_periodic, ordered_eligible_event, eligible,
                 sorted_available_cores, finish_time, admissible>>

\* a dispatch that leaves the tokens where they are
ConsumeNone(tok, name) == tok

\* lines 313-314: one token is consumed on every incoming edge
ConsumeTokens(tok, name) ==
  [e \in DOMAIN tok |->
     IF e[2] = name /\ e[1] \in Range(predecessors[name]) THEN tok[e] - 1 ELSE tok[e]]

\* a dispatch of an event without the test of lines 294-295
EventDispatchPastHorizon ==
  /\ pc = "event"
  /\ sorted_available_cores # <<>>
  /\ LET name == ordered_eligible_event[idx]
         t_i == Props(runnables, name).execution_time
         core == Head(sorted_available_cores)
         held == core \in Range(available_cores)
     IN /\ ~DelayRuleApplies(name, tau)
        /\ start' = [start EXCEPT ![name] = tau]
        /\ sorted_available_cores' = Tail(sorted_available_cores)
        /\ available_cores' = IF held THEN Remove(available_cores, core) ELSE available_cores
        /\ idle_cores' = IF held THEN Remove(idle_cores, core) ELSE idle_cores
        /\ running' = [k \in DOMAIN running \cup {<<name, tau>>} |->
                         IF k = <<name, tau>> THEN <<tau + t_i, core>> ELSE running[k]]
        /\ schedule' = Append(schedule, ScheduleEntry(name, tau, tau + t_i, core, tau))
        /\ tokens' = ConsumeTokens(tokens, name)
  /\ NextEvent
  /\ UNCHANGED <<args, consts, tau, phi, next_active, eta,
                 total_delay, eligible_event, ordered_eligible_periodic,
                 ordered_eligible_event, eligible, finish_time, admissible>>

\* lines 303-314: the event is dispatched on the first admissible core
EventDispatch ==
  /\ pc = "event"
  /\ sorted_available_cores # <<>>
  /\ LET name == ordered_eligible_event[idx]
         t_i == Props(runnables, name).execution_time
         core == Head(sorted_available_cores)
         held == core \in Range(available_cores)
     IN /\ tau + t_i <= T_end
        /\ ~DelayRuleApplies(name, tau)
        /\ start' = [start EXCEPT ![name] = tau]
        /\ sorted_available_cores' = Tail(sorted_available_cores)
        /\ available_cores' = IF held THEN Remove(available_cores, core) ELSE available_cores
        /\ idle_cores' = IF held THEN Remove(idle_cores, core) ELSE idle_cores
        /\ running' = [k \in DOMAIN running \cup {<<name, tau>>} |->
                         IF k = <<name, tau>> THEN <<tau + t_i, core>> ELSE running[k]]
        /\ schedule' = Append(schedule, ScheduleEntry(name, tau, tau + t_i, core, tau))
        /\ tokens' = ConsumeTokens(tokens, name)
  /\ NextEvent
  /\ UNCHANGED <<args, consts, tau, phi, next_active, eta,
                 total_delay, eligible_event, ordered_eligible_periodic,
                 ordered_eligible_event, eligible, finish_time, admissible>>

\* a set as a list, in some order
RECURSIVE SeqOfSet(_)
SeqOfSet(S) ==
  IF S = {} THEN <<>>
  ELSE LET x == CHOOSE y \in S : TRUE IN <<x>> \o SeqOfSet(S \ {x})

\* a completion loop that completes nothing
CompletingNever(run, tau_next) == {}

\* a completion loop that is left after its first completion
CompletingFirst(run, tau_next) ==
  LET all == { k \in DOMAIN run : run[k][1] = tau_next }
  IN IF all = {} THEN {}
     ELSE { CHOOSE k \in all : \A o \in all : run[k][2] <= run[o][2] }

\* the entries of running that the loop of lines 326-338 completes
Completing(run, tau_next) == { k \in DOMAIN run : run[k][1] = tau_next }

\* a completion that counts twice on every outgoing edge
ProduceTwice(tok, names) ==
  [e \in DOMAIN tok |->
     IF e[1] \in names /\ e[2] \in Range(successors[e[1]]) THEN tok[e] + 2 ELSE tok[e]]

\* a completion that produces no token
ProduceNone(tok, names) == tok

\* lines 335-336: one token more on every outgoing edge of a completed runnable
ProduceTokens(tok, names) ==
  [e \in DOMAIN tok |->
     IF e[1] \in names /\ e[2] \in Range(successors[e[1]]) THEN tok[e] + 1 ELSE tok[e]]

\* a stamp that puts the successors of a completed runnable at the horizon
StampSuccessorsAtHorizon(d, names, t) ==
  LET succs == UNION { Range(successors[n]) : n \in names }
  IN [s \in DOMAIN d \cup succs |-> IF s \in succs THEN T_end ELSE d[s]]

\* lines 337-338: start[s] and eta[s] of every successor s of a completed runnable
StampSuccessors(d, names, t) ==
  LET succs == UNION { Range(successors[n]) : n \in names }
  IN [s \in DOMAIN d \cup succs |-> IF s \in succs THEN t ELSE d[s]]

\* a next_fin that looks at the entry on the lowest core only
NextFinishLowestCore(run) ==
  { run[k][1] : k \in { j \in DOMAIN run : \A o \in DOMAIN run : run[j][2] <= run[o][2] } }

\* lines 316-318
NextFinish(run) == RunningFinishes(run)

NextActive(ph, t) == MinOf({ ph[n] : n \in { m \in DOMAIN ph : ph[m] > t } }, inf)

\* lines 316-340: the next decision point, the completions at it, tau := tau_next
Advance ==
  /\ pc = "advance"
  /\ LET na == NextActive(phi, tau)
         next_decision_point == NextFinish(running) \cup {na}
     IN /\ next_active' = na
        /\ IF next_decision_point = {}
           THEN /\ pc' = "exit"
                /\ UNCHANGED <<idle_cores, available_cores, running, tokens,
                               start, eta, tau>>
           ELSE LET tau_next == MinOf(next_decision_point, 0)
                    done == Completing(running, tau_next)
                    doneNames == { k[1] : k \in done }
                    cores == [i \in 1..Cardinality(done) |->
                                running[SeqOfSet(done)[i]][2]]
                IN /\ running' = [k \in DOMAIN running \ done |-> running[k]]
                   /\ idle_cores' =
                        SortedInts(idle_cores \o
                                   SeqOfSet(Range(cores) \ Range(idle_cores)))
                   /\ available_cores' =
                        IF Lower(allocation_policy) = "static"
                        THEN SortedInts(available_cores \o cores)
                        ELSE available_cores
                   /\ tokens' = ProduceTokens(tokens, doneNames)
                   /\ start' = StampSuccessors(start, doneNames, tau_next)
                   /\ eta' = StampSuccessors(eta, doneNames, tau_next)
                   /\ tau' = tau_next
                   /\ pc' = "head"
  /\ UNCHANGED <<args, consts, phi, schedule, total_delay, locals,
                 finish_time>>

\* a return that empties the deps list of every node of the caller's graph
ReturnClearingDeps ==
  /\ pc \in {"exit", "head"}
  /\ pc = "head" => ~(tau < T_end)
  /\ finish_time' = MaxOf({ schedule[i].finish_time : i \in DOMAIN schedule }, 0)
  /\ pc' = "done"
  /\ runnables' = [i \in DOMAIN runnables |-> [runnables[i] EXCEPT !.deps = <<>>]]
  /\ UNCHANGED <<num_cores, scheduling_policy, allocation_policy, I, prev, outside,
                 consts, available_cores, idle_cores, tau, phi,
                 next_active, eta, start, running, schedule, tokens, total_delay,
                 locals>>

\* lines 342-343: the loop has ended, the makespan is computed and returned
Return ==
  /\ pc \in {"exit", "head"}
  /\ pc = "head" => ~(tau < T_end)
  /\ finish_time' = MaxOf({ schedule[i].finish_time : i \in DOMAIN schedule }, 0)
  /\ pc' = "done"
  /\ UNCHANGED <<args, consts, available_cores, idle_cores, tau, phi,
                 next_active, eta, start, running, schedule, tokens, total_delay,
                 locals>>

(***************************************************************************)
(* The calls of the model.  A shape lists, for the nodes A, B, C in        *)
(* insertion order, the deps of the node and the types it may have; a      *)
(* periodic node has no deps and a period in Periods, an event node has    *)
(* period 0 (the default of props.get("period", 0)).                       *)
(***************************************************************************)
ExecTimes == 1..2

Periods == 1..2

Priorities == 0..1

NodeChoices(name, node) ==
  { [name |-> name, type |-> "event", execution_time |-> t, period |-> 0,
     priority |-> p, deps |-> node.deps]
    : t \in IF "event" \in node.types THEN ExecTimes ELSE {}, p \in Priorities }
  \cup
  { [name |-> name, type |-> "periodic", execution_time |-> t, period |-> T,
     priority |-> p, deps |-> node.deps]
    : t \in IF "periodic" \in node.types THEN ExecTimes ELSE {},
      T \in Periods, p \in Priorities }

RECURSIVE GraphsFrom(_, _)
GraphsFrom(shape, i) ==
  IF i > Len(shape) THEN { <<>> }
  ELSE { <<x>> \o rest : x \in NodeChoices(NameSeq[i], shape[i]),
                         rest \in GraphsFrom(shape, i + 1) }

GraphsOf(shapes) == UNION { GraphsFrom(sh, 1) : sh \in shapes }

\* a source of either type, a periodic source, an event node behind deps
Source == [deps |-> <<>>, types |-> {"periodic", "event"}]

PeriodicSource == [deps |-> <<>>, types |-> {"periodic"}]

EventOn(deps) == [deps |-> deps, types |-> {"event"}]

\* one node; two independent nodes; a dependent pair; a join; a chain; a fork
DagShapes ==
  { << Source >>,
    << Source, Source >>,
    << Source, EventOn(<<"A">>) >>,
    << PeriodicSource, PeriodicSource, EventOn(<<"A", "B">>) >>,
    << PeriodicSource, EventOn(<<"A">>), EventOn(<<"B">>) >>,
    << PeriodicSource, EventOn(<<"A">>), EventOn(<<"A">>) >> }

\* B and C depend on each other behind a source; C depends on itself beside
\* two sources; A and B depend on each other and nothing can start
CyclicShapes ==
  { << PeriodicSource, EventOn(<<"A", "C">>), EventOn(<<"B">>) >>,
    << PeriodicSource, Source, EventOn(<<"A", "C">>) >>,
    << EventOn(<<"B">>), EventOn(<<"A">>) >> }

\* the shapes of the calls with other policy names
PolicyShapes ==
  { << Source >>,
    << Source, Source >>,
    << Source, EventOn(<<"A">>) >> }

\* priorities are read by PAS alone: every other policy gets them all 0
PrioritiesUsed(g, policy) ==
  Lower(policy) = "pas" \/ \A i \in DOMAIN g : g[i].priority = 0

\* no SharedExecutionLog has been constructed
NoLog ==
  /\ log = <<>>
  /\ max_size = 0
  /\ lock = 0
  /\ callbacks = <<>>
  /\ frames = <<>>
  /\ returned = <<>>
  /\ started = <<>>
  /\ stored = <<>>
  /\ invoked = <<>>

\* run_fcfs_affinity has not been called
NoFcfsCall ==
  /\ fcfs_runnables = <<>>
  /\ fcfs_num_cores = 0
  /\ simulation_time = 0
  /\ fcfs_pc = "none"
  /\ event_queue = {}
  /\ core_time = <<>>
  /\ execution_log_core = <<>>
  /\ completed_instances = <<>>
  /\ event_task_instance_counter = <<>>
  /\ fcfs_result = <<>>

\* run_main_scheduler has not been called
NoKernelCall ==
  /\ runnables = <<>>
  /\ num_cores = 1
  /\ scheduling_policy = "fcfs"
  /\ allocation_policy = "static"
  /\ I = <<>>
  /\ pc = "none"
  /\ successors = EmptyDict
  /\ predecessors = EmptyDict
  /\ T_end = 0
  /\ p_max = 0
  /\ n_min = 0
  /\ available_cores = <<>>
  /\ idle_cores = <<>>
  /\ tau = 0
  /\ phi = EmptyDict
  /\ next_active = 0
  /\ eta = EmptyDict
  /\ start = EmptyDict
  /\ running = EmptyDict
  /\ schedule = <<>>
  /\ tokens = EmptyDict
  /\ total_delay = 0
  /\ eligible_event = <<>>
  /\ ordered_eligible_periodic = <<>>
  /\ ordered_eligible_event = <<>>
  /\ eligible = <<>>
  /\ sorted_available_cores = <<>>
  /\ idx = 1
  /\ finish_time = 0
  /\ admissible = 0
  /\ prev = <<>>

\* everything of run_main_scheduler
kernel == <<runnables, num_cores, scheduling_policy, allocation_policy, I, prev, pc, consts,
            available_cores, idle_cores, tau, phi, next_active, eta,
            start, running, schedule, tokens, total_delay, locals, finish_time>>

\* the state in which a call with arguments from the given sets starts
InitCalls(graphs, cores, schedulingPolicies, allocationPolicies, iterations) ==
  /\ runnables \in graphs
  /\ num_cores \in cores
  /\ scheduling_policy \in schedulingPolicies
  /\ PrioritiesUsed(runnables, scheduling_policy)
  /\ allocation_policy \in allocationPolicies
  /\ I \in iterations
  /\ pc = "start"
  /\ successors = EmptyDict
  /\ predecessors = EmptyDict
  /\ T_end = 0
  /\ p_max = 0
  /\ n_min = 0
  /\ available_cores = <<>>
  /\ idle_cores = <<>>
  /\ tau = 0
  /\ phi = EmptyDict
  /\ next_active = 0
  /\ eta = EmptyDict
  /\ start = EmptyDict
  /\ running = EmptyDict
  /\ schedule = <<>>
  /\ tokens = EmptyDict
  /\ total_delay = 0
  /\ eligible_event = <<>>
  /\ ordered_eligible_periodic = <<>>
  /\ ordered_eligible_event = <<>>
  /\ eligible = <<>>
  /\ sorted_available_cores = <<>>
  /\ idx = 1
  /\ finish_time = 0
  /\ admissible = 0
  /\ prev = <<>>
  /\ NoLog
  /\ NoFcfsCall

InitWith(graphs, schedulingPolicies, allocationPolicies) ==
  InitCalls(graphs, 1..MaxCores, schedulingPolicies, allocationPolicies,
            { <<>> } \cup { <<k>> : k \in 1..MaxI })

\* acyclic graphs, the policies the kernel names
Init == InitWith(GraphsOf(DagShapes), {"fcfs", "pas"}, {"static", "dynamic"})

Next ==
  \/ Setup
  \/ LoopHead
  \/ PeriodicDefer
  \/ PeriodicDispatch
  \/ EventNoCore
  \/ EventHorizon
  \/ EventDelay
  \/ EventDispatch
  \/ Advance
  \/ Return

Spec == Init /\ [][Next]_vars

\* graphs with a dependency cycle
InitCyclic == InitWith(GraphsOf(CyclicShapes), {"fcfs", "pas"}, {"static", "dynamic"})

SpecCyclic == InitCyclic /\ [][Next]_vars

\* policy names in another case, misspelt (line 575) or unknown
InitPolicies ==
  InitWith(GraphsOf(PolicyShapes), {"fcfs", "PAS", "fcf  s"}, {"dynamic", "Static", "none"})

SpecPolicies == InitPolicies /\ [][Next]_vars

(***************************************************************************)
(* A sweep over the cores (src/backend/sweeper.py, lines 43-53): the same  *)
(* graph, policies and I are run again with another num_cores, and the     *)
(* result of the call before is kept to be compared.                       *)
(***************************************************************************)
\* graphs of one periodic source followed by a chain of events, and a join
ChainShapes ==
  { << PeriodicSource >>,
    << PeriodicSource, EventOn(<<"A">>) >>,
    << PeriodicSource, EventOn(<<"A">>), EventOn(<<"B">>) >>,
    << PeriodicSource, PeriodicSource, EventOn(<<"A", "B">>) >> }

\* two periodic sources of 9 and 1 units of work: P_max = 2 and N_min = 1
SkewedGraphs ==
  { << [name |-> "A", type |-> "periodic", execution_time |-> 9, period |-> 10,
        priority |-> 0, deps |-> <<>>],
       [name |-> "B", type |-> "periodic", execution_time |-> 1, period |-> T,
        priority |-> p, deps |-> <<>>] >> : T \in {2, 5}, p \in Priorities }

InitSweep ==
  InitWith(GraphsOf(ChainShapes) \cup SkewedGraphs, {"fcfs", "pas"}, {"static", "dynamic"})

Rerun ==
  /\ pc = "done"
  /\ prev = <<>>
  /\ \E cores \in (1..MaxCores) \ {num_cores} : num_cores' = cores
  /\ prev' = << [num_cores |-> num_cores,
                 c_alloc |-> Max2(1, Min2(num_cores, Min2(p_max, n_min))),
                 schedule |-> schedule,
                 finish_time |-> finish_time,
                 total_delay |-> total_delay] >>
  /\ pc' = "start"
  /\ successors' = EmptyDict
  /\ predecessors' = EmptyDict
  /\ T_end' = 0
  /\ p_max' = 0
  /\ n_min' = 0
  /\ available_cores' = <<>>
  /\ idle_cores' = <<>>
  /\ tau' = 0
  /\ phi' = EmptyDict
  /\ next_active' = 0
  /\ eta' = EmptyDict
  /\ start' = EmptyDict
  /\ running' = EmptyDict
  /\ schedule' = <<>>
  /\ tokens' = EmptyDict
  /\ total_delay' = 0
  /\ eligible_event' = <<>>
  /\ ordered_eligible_periodic' = <<>>
  /\ ordered_eligible_event' = <<>>
  /\ eligible' = <<>>
  /\ sorted_available_cores' = <<>>
  /\ idx' = 1
  /\ finish_time' = 0
  /\ admissible' = 0
  /\ UNCHANGED <<runnables, scheduling_policy, allocation_policy, I, outside>>

NextSweep == Next \/ Rerun

SpecSweep == InitSweep /\ [][NextSweep]_vars

(***************************************************************************)
(* Static against dynamic allocation: a call under static allocation is    *)
(* made, its result is kept, and the same call is made again under dynamic *)
(* allocation.                                                             *)
(***************************************************************************)
\* the state of the locals before a call
NewCall ==
  /\ pc' = "start"
  /\ successors' = EmptyDict
  /\ predecessors' = EmptyDict
  /\ T_end' = 0
  /\ p_max' = 0
  /\ n_min' = 0
  /\ available_cores' = <<>>
  /\ idle_cores' = <<>>
  /\ tau' = 0
  /\ phi' = EmptyDict
  /\ next_active' = 0
  /\ eta' = EmptyDict
  /\ start' = EmptyDict
  /\ running' = EmptyDict
  /\ schedule' = <<>>
  /\ tokens' = EmptyDict
  /\ total_delay' = 0
  /\ eligible_event' = <<>>
  /\ ordered_eligible_periodic' = <<>>
  /\ ordered_eligible_event' = <<>>
  /\ eligible' = <<>>
  /\ sorted_available_cores' = <<>>
  /\ idx' = 1
  /\ finish_time' = 0
  /\ admissible' = 0

\* what is kept of a call that has returned
Result ==
  [num_cores |-> num_cores,
   c_alloc |-> Max2(1, Min2(num_cores, Min2(p_max, n_min))),
   schedule |-> schedule,
   finish_time |-> finish_time,
   total_delay |-> total_delay]

RerunDynamic ==
  /\ pc = "done"
  /\ prev = <<>>
  /\ allocation_policy = "static"
  /\ allocation_policy' = "dynamic"
  /\ prev' = << Result >>
  /\ NewCall
  /\ UNCHANGED <<runnables, num_cores, scheduling_policy, I, outside>>

NextAlloc == Next \/ RerunDynamic

InitAlloc == InitWith(GraphsOf(DagShapes), {"fcfs", "pas"}, {"static"})

SpecAlloc == InitAlloc /\ [][NextAlloc]_vars

(***************************************************************************)
(* The same graph listed in another order: a call is made, its result is   *)
(* kept, and the call is made again on the mapping with the same nodes     *)
(* inserted in another order.                                              *)
(***************************************************************************)
\* the mappings with the nodes of r in every other insertion order
Permuted(r) ==
  { [i \in DOMAIN r |-> r[q[i]]] : q \in { f \in [DOMAIN r -> DOMAIN r] :
                                             /\ \A i, j \in DOMAIN r : i # j => f[i] # f[j]
                                             /\ \E i \in DOMAIN r : f[i] # i } }

RerunPermuted ==
  /\ pc = "done"
  /\ prev = <<>>
  /\ runnables' \in Permuted(runnables)
  /\ prev' = << Result >>
  /\ NewCall
  /\ UNCHANGED <<num_cores, scheduling_policy, allocation_policy, I, outside>>

NextPermuted == Next \/ RerunPermuted

\* the calls of Init with the default horizon
InitPermuted ==
  InitCalls(GraphsOf(DagShapes), 1..MaxCores, {"fcfs", "pas"}, {"static", "dynamic"},
            { <<>> })

SpecPermuted == InitPermuted /\ [][NextPermuted]_vars

\* the calls on a source and on a dependent pair
InitFair ==
  InitWith(GraphsOf({ << Source >>, << Source, EventOn(<<"A">>) >> }),
           {"fcfs"}, {"static", "dynamic"})

\* the interpreter runs the call to its end: a step that is possible is taken
FairSpec == InitFair /\ [][Next]_vars /\ WF_vars(Next)

(***************************************************************************)
(* The scenarios S1, S4 and S5, run beside the calls on the small shapes.  *)
(***************************************************************************)
Node(name, type, period, exec, deps) ==
  [name |-> name, type |-> type, execution_time |-> exec, period |-> period,
   priority |-> 0, deps |-> deps]

S1Graph ==
  << Node("A", "periodic", 10, 3, <<>>), Node("B", "event", 0, 2, <<"A">>) >>

S4Graph ==
  << Node("A", "periodic", 10, 2, <<>>), Node("B", "periodic", 10, 3, <<>>),
     Node("C", "event", 0, 1, <<"A", "B">>) >>

S5Graph == << Node("A", "periodic", 5, 2, <<>>) >>

ScenarioIterations == { <<1>>, <<3>> }

InitScenarios ==
  InitCalls({S1Graph, S4Graph, S5Graph} \cup GraphsOf(PolicyShapes), 1..MaxCores,
            {"fcfs", "pas"}, {"static", "dynamic"}, ScenarioIterations)

SpecScenarios == InitScenarios /\ [][Next]_vars

(***************************************************************************)
(* The idle jump of lines 268-269 against the kernel without it: a call    *)
(* on one core is made as the code makes it, its result is kept, and the   *)
(* same call is made again with the two lines removed.                     *)
(***************************************************************************)
\* the kernel as it is, in the first call
WithShortcut == prev = <<>> /\ LoopHead

\* the kernel without lines 268-269, in the second call
WithoutShortcut == prev # <<>> /\ LoopHeadWithoutJump

RerunWithoutJump ==
  /\ pc = "done"
  /\ prev = <<>>
  /\ num_cores <= 1
  /\ prev' = << [num_cores |-> num_cores,
                 c_alloc |-> Max2(1, Min2(num_cores, Min2(p_max, n_min))),
                 schedule |-> schedule,
                 finish_time |-> finish_time,
                 total_delay |-> total_delay] >>
  /\ pc' = "start"
  /\ successors' = EmptyDict
  /\ predecessors' = EmptyDict
  /\ T_end' = 0
  /\ p_max' = 0
  /\ n_min' = 0
  /\ available_cores' = <<>>
  /\ idle_cores' = <<>>
  /\ tau' = 0
  /\ phi' = EmptyDict
  /\ next_active' = 0
  /\ eta' = EmptyDict
  /\ start' = EmptyDict
  /\ running' = EmptyDict
  /\ schedule' = <<>>
  /\ tokens' = EmptyDict
  /\ total_delay' = 0
  /\ eligible_event' = <<>>
  /\ ordered_eligible_periodic' = <<>>
  /\ ordered_eligible_event' = <<>>
  /\ eligible' = <<>>
  /\ sorted_available_cores' = <<>>
  /\ idx' = 1
  /\ finish_time' = 0
  /\ admissible' = 0
  /\ UNCHANGED <<runnables, num_cores, scheduling_policy, allocation_policy, I, outside>>

NextJump ==
  \/ Setup
  \/ WithShortcut
  \/ WithoutShortcut
  \/ PeriodicDefer
  \/ PeriodicDispatch
  \/ EventNoCore
  \/ EventHorizon
  \/ EventDelay
  \/ EventDispatch
  \/ Advance
  \/ Return
  \/ RerunWithoutJump

\* the calls of Init and the calls on the graphs of the scenarios, whose
\* periods leave the core idle between the work of one period and the next
InitJump ==
  \/ Init
  \/ InitCalls({S1Graph, S4Graph, S5Graph}, 1..MaxCores, {"fcfs", "pas"},
               {"static", "dynamic"}, ScenarioIterations)

SpecJump == InitJump /\ [][NextJump]_vars

(***************************************************************************)
(* Calls under dynamic allocation with the default horizon on graphs whose *)
(* sources are periodic, with up to as many cores as a graph has nodes:    *)
(* the graphs of the small shapes, and the same graphs with every period   *)
(* stretched to the horizon 2 * W, so that a periodic node is released     *)
(* once in a run.                                                          *)
(***************************************************************************)
MaxNodes == 3

EventShapes ==
  { << PeriodicSource, EventOn(<<"A">>) >>,
    << PeriodicSource, PeriodicSource, EventOn(<<"A", "B">>) >>,
    << PeriodicSource, EventOn(<<"A">>), EventOn(<<"B">>) >>,
    << PeriodicSource, EventOn(<<"A">>), EventOn(<<"A">>) >> }

\* the graph with the period of every periodic node set to 2 * W
Stretched(g) ==
  [i \in DOMAIN g |->
     IF g[i].type = "periodic"
     THEN [g[i] EXCEPT !.period = 2 * compute_total_work(g)]
     ELSE g[i]]

InitEvents ==
  InitCalls(GraphsOf(EventShapes) \cup { Stretched(g) : g \in GraphsOf(EventShapes) },
            1..MaxNodes, {"fcfs", "pas"}, {"dynamic"}, { <<>> })

SpecEvents == InitEvents /\ [][Next]_vars

(***************************************************************************)
(* Calls that exercise compute_parallelism_bounds: the empty graph, the    *)
(* small shapes, a triangle (a long and a short path to C), a diamond and  *)
(* a chain with a side branch.                                             *)
(***************************************************************************)
BoundShapes ==
  { << >>,
    << Source >>,
    << Source, Source >>,
    << PeriodicSource, EventOn(<<"A">>), EventOn(<<"A", "B">>) >>,
    << PeriodicSource, EventOn(<<"A">>), EventOn(<<"A">>), EventOn(<<"B", "C">>) >>,
    << PeriodicSource, EventOn(<<"A">>), EventOn(<<"B">>), EventOn(<<"A">>) >> }

InitBounds ==
  InitCalls(GraphsOf(BoundShapes), 1..MaxCores, {"fcfs"}, {"static", "dynamic"},
            { <<>>, <<1>> })

SpecBounds == InitBounds /\ [][Next]_vars

(***************************************************************************)
(* SharedExecutionLog (shared_log.py), used by MaxThreads threads.  A      *)
(* thread is switched out between any two of the steps below; a step on    *)
(* the deque or on the list of callbacks is one bytecode-level operation   *)
(* and is atomic.  A callback is modelled by what it does with the log it  *)
(* is registered on: nothing ("record"), a call of get_log, or a call of   *)
(* append.  An entry is <<thread, number of the append of that thread>>.   *)
(***************************************************************************)
MaxThreads == 2

\* the appends of all threads together
MaxAppends == 3

MaxCallbacks == 2

MaxSize == 2

MaxDepth == 2

Threads == 1..MaxThreads

CallbackKinds == {"record", "get_log", "append"}

\* the last n elements of s
LastN(s, n) == IF Len(s) <= n THEN s ELSE SubSeq(s, Len(s) - n + 1, Len(s))

\* a deque that refuses the new entry when it is full
deque_append_refusing(d, maxlen, x) ==
  IF Len(d) >= maxlen THEN d ELSE Append(d, x)

\* deque(maxlen=m).append(x): a full deque drops its oldest entry
deque_append(d, maxlen, x) ==
  IF maxlen = 0 THEN d
  ELSE IF Len(d) = maxlen THEN Append(Tail(d), x)
  ELSE Append(d, x)

\* a get_log that hands out the deque itself
the_deque_itself(d) == [obj |-> "deque", items |-> d]

\* list(self.log): a new list with the entries of the deque
list_copy(d) == [obj |-> "list", items |-> d]

\* what the caller reads in the object its last get_log returned
Items(t) == IF returned[t].obj = "deque" THEN log ELSE returned[t].items

\* a call of op on the log: it starts in front of "with self.lock"; reg is
\* len(self.callbacks) when the call begins
Frame(op, entry) ==
  [op |-> op, pc |-> "lock", entry |-> entry, i |-> 1, reg |-> Len(callbacks)]

InCall(t) == frames[t] # <<>>

Top(t) == frames[t][Len(frames[t])]

SetTop(t, f) == [frames EXCEPT ![t] = [@ EXCEPT ![Len(@)] = f]]

Push(t, f) == [frames EXCEPT ![t] = Append(@, f)]

Pop(t) == [frames EXCEPT ![t] = SubSeq(@, 1, Len(@) - 1)]

\* line 14: thread t calls append(entry)
CallAppend(t) ==
  /\ ~InCall(t)
  /\ SumSeq(started) < MaxAppends
  /\ started' = [started EXCEPT ![t] = @ + 1]
  /\ frames' = Push(t, Frame("append", <<t, started[t] + 1>>))
  /\ UNCHANGED <<log, max_size, lock, callbacks, returned, stored, invoked,
                 kernel, fcfsvars>>

\* line 21: thread t calls get_log()
CallGetLog(t) ==
  /\ ~InCall(t)
  /\ frames' = Push(t, Frame("get_log", <<t, 0>>))
  /\ UNCHANGED <<log, max_size, lock, callbacks, returned, started, stored, invoked,
                 kernel, fcfsvars>>

\* a lock that is taken whether it is free or not
AcquireAnyway(t) ==
  /\ InCall(t)
  /\ Top(t).pc = "lock"
  /\ lock' = t
  /\ frames' = SetTop(t, [Top(t) EXCEPT !.pc = IF Top(t).op = "append" THEN "store" ELSE "copy"])
  /\ UNCHANGED <<log, max_size, callbacks, returned, started, stored, invoked,
                 kernel, fcfsvars>>

\* lines 16 and 23: "with self.lock" waits until the lock is free; a
\* threading.Lock is not reentrant, the thread that holds it waits as well
Acquire(t) ==
  /\ InCall(t)
  /\ Top(t).pc = "lock"
  /\ lock = 0
  /\ lock' = t
  /\ frames' = SetTop(t, [Top(t) EXCEPT !.pc = IF Top(t).op = "append" THEN "store" ELSE "copy"])
  /\ UNCHANGED <<log, max_size, callbacks, returned, started, stored, invoked,
                 kernel, fcfsvars>>

\* line 17: self.log.append(entry)
Store(t) ==
  /\ InCall(t)
  /\ Top(t).pc = "store"
  /\ log' = deque_append(log, max_size, Top(t).entry)
  /\ stored' = Append(stored, Top(t).entry)
  /\ frames' = SetTop(t, [Top(t) EXCEPT !.pc = "callbacks"])
  /\ UNCHANGED <<max_size, lock, callbacks, returned, started, invoked,
                 kernel, fcfsvars>>

\* lines 18-19: the next callback of the list is called with the entry; the
\* for loop reads the list as it is now
InvokeCallback(t) ==
  /\ InCall(t)
  /\ Top(t).pc = "callbacks"
  /\ Top(t).i <= Len(callbacks)
  /\ LET f == Top(t)
         kind == callbacks[f.i]
         after == SetTop(t, [f EXCEPT !.i = @ + 1])
     IN /\ invoked' = Append(invoked, <<f.i, f.entry>>)
        /\ frames' =
             IF kind = "record" \/ Len(frames[t]) >= MaxDepth THEN after
             ELSE [after EXCEPT ![t] = Append(@, Frame(kind, <<t, 0>>))]
  /\ UNCHANGED <<log, max_size, lock, callbacks, returned, started, stored,
                 kernel, fcfsvars>>

\* line 16, leaving the with block of append: the lock is released
Release(t) ==
  /\ InCall(t)
  /\ Top(t).pc = "callbacks"
  /\ Top(t).i > Len(callbacks)
  /\ lock' = 0
  /\ frames' = Pop(t)
  /\ UNCHANGED <<log, max_size, callbacks, returned, started, stored, invoked,
                 kernel, fcfsvars>>

\* line 24: list(self.log)
Copy(t) ==
  /\ InCall(t)
  /\ Top(t).pc = "copy"
  /\ frames' = SetTop(t, [Top(t) EXCEPT !.pc = "unlock"])
  /\ returned' = IF Len(frames[t]) = 1 THEN [returned EXCEPT ![t] = list_copy(log)]
                 ELSE returned
  /\ UNCHANGED <<log, max_size, lock, callbacks, started, stored, invoked,
                 kernel, fcfsvars>>

\* line 23, leaving the with block of get_log: the lock is released and the
\* list is returned
ReturnLog(t) ==
  /\ InCall(t)
  /\ Top(t).pc = "unlock"
  /\ lock' = 0
  /\ frames' = Pop(t)
  /\ UNCHANGED <<log, max_size, callbacks, returned, started, stored, invoked,
                 kernel, fcfsvars>>

\* lines 26-28: register_callback appends to the list, without the lock
RegisterCallback(t, kind) ==
  /\ ~InCall(t)
  /\ Len(callbacks) < MaxCallbacks
  /\ callbacks' = Append(callbacks, kind)
  /\ UNCHANGED <<log, max_size, lock, frames, returned, started, stored, invoked,
                 kernel, fcfsvars>>

\* the caller empties the list that get_log gave it
CallerClears(t) ==
  /\ ~InCall(t)
  /\ returned[t].obj # "none"
  /\ Items(t) # <<>>
  /\ IF returned[t].obj = "deque"
     THEN log' = <<>> /\ UNCHANGED returned
     ELSE returned' = [returned EXCEPT ![t].items = <<>>] /\ UNCHANGED log
  /\ UNCHANGED <<max_size, lock, callbacks, frames, started, stored, invoked,
                 kernel, fcfsvars>>

\* the steps of thread t inside a call
ThreadStep(t) ==
  \/ Acquire(t)
  \/ Store(t)
  \/ InvokeCallback(t)
  \/ Release(t)
  \/ Copy(t)
  \/ ReturnLog(t)

NextLog ==
  \E t \in Threads :
    \/ CallAppend(t)
    \/ CallGetLog(t)
    \/ \E kind \in CallbackKinds : RegisterCallback(t, kind)
    \/ CallerClears(t)
    \/ ThreadStep(t)

\* SharedExecutionLog(max_size) has been constructed, no thread uses it yet
InitLog ==
  /\ NoKernelCall
  /\ NoFcfsCall
  /\ max_size \in 0..MaxSize
  /\ log = <<>>
  /\ lock = 0
  /\ callbacks = <<>>
  /\ frames = [t \in Threads |-> <<>>]
  /\ returned = [t \in Threads |-> [obj |-> "none", items |-> <<>>]]
  /\ started = [t \in Threads |-> 0]
  /\ stored = <<>>
  /\ invoked = <<>>

SpecLog == InitLog /\ [][NextLog]_vars

\* the log with the largest max_size of the model
InitReentrant ==
  /\ InitLog
  /\ max_size = MaxSize

\* a thread inside a call is scheduled again, and a thread that waits for a
\* lock that is free again and again gets it
FairSpecLog ==
  /\ InitReentrant
  /\ [][NextLog]_vars
  /\ \A t \in Threads : WF_vars(ThreadStep(t)) /\ SF_vars(Acquire(t))

(***************************************************************************)
(* run_fcfs_affinity (fcfs/fcfs.py).  fcfs_runnables is the dict of the    *)
(* call in insertion order: a sequence of records [name, id, type, period, *)
(* execution_time, affinity, deps]; deps is the list of the ids of the     *)
(* dependencies.  A tuple of the heap is <<time, name, execution_time,     *)
(* instance>>; an entry of a log is a record of the tuple (actual_start,   *)
(* finish_time, task, instance, affinity).                                 *)
(***************************************************************************)
FcfsProps(n) ==
  fcfs_runnables[CHOOSE i \in DOMAIN fcfs_runnables : fcfs_runnables[i].name = n]

FcfsNames == { fcfs_runnables[i].name : i \in DOMAIN fcfs_runnables }

\* lines 18-21
id_to_name(id) ==
  fcfs_runnables[CHOOSE i \in DOMAIN fcfs_runnables : fcfs_runnables[i].id = id].name

name_to_id(n) == FcfsProps(n).id

\* the order of Python on the tuples of the heap
HeapKey(e) == <<e[1], NameRank[e[2]], e[3], e[4]>>

\* what heapq.heappop returns
HeapMin(q) ==
  CHOOSE e \in q : \A o \in q : o = e \/ TupleLess(HeapKey(e), HeapKey(o))

\* lines 31-42: every instance of every periodic runnable before simulation_time
schedule_periodic_runnables ==
  { <<jc[2] * fcfs_runnables[jc[1]].period, fcfs_runnables[jc[1]].name,
      fcfs_runnables[jc[1]].execution_time, jc[2]>>
    : jc \in { x \in (DOMAIN fcfs_runnables) \X (0..simulation_time) :
                 /\ fcfs_runnables[x[1]].type = "periodic"
                 /\ x[2] * fcfs_runnables[x[1]].period < simulation_time } }

\* lines 46-54: the event runnables that the completion of task triggers;
\* completed is completed_instances after line 71
Triggered(task, completed) ==
  { n \in FcfsNames :
      /\ FcfsProps(n).type = "event"
      /\ name_to_id(task) \in Range(FcfsProps(n).deps)
      /\ \A k \in DOMAIN FcfsProps(n).deps :
           completed[id_to_name(FcfsProps(n).deps[k])] > event_task_instance_counter[n] }

FcfsEntry(s, f, task, instance, core) ==
  [start |-> s, finish |-> f, task |-> task, instance |-> instance, core |-> core]

\* lines 18-29 and 60: the locals are set up and the periodic instances pushed
FcfsSetup ==
  /\ fcfs_pc = "start"
  /\ event_queue' = schedule_periodic_runnables
  /\ core_time' = [c \in 0..(fcfs_num_cores - 1) |-> 0]
  /\ execution_log_core' = [c \in 0..(fcfs_num_cores - 1) |-> <<>>]
  /\ completed_instances' = [n \in FcfsNames |-> 0]
  /\ event_task_instance_counter' = [n \in FcfsNames |-> 0]
  /\ fcfs_pc' = "loop"
  /\ UNCHANGED <<fcfs_runnables, fcfs_num_cores, simulation_time, fcfs_result,
                 kernel, logvars>>

\* lines 62-72: one iteration of the loop; lines 55-58 push each triggered
\* event at the finish time of the task just popped
FcfsRun ==
  /\ fcfs_pc = "loop"
  /\ event_queue # {}
  /\ LET popped == HeapMin(event_queue)
         scheduled_time == popped[1]
         task == popped[2]
         execution_time == popped[3]
         instance == popped[4]
         affinity == FcfsProps(task).affinity
         actual_start == Max2(core_time[affinity], scheduled_time)
         finish == actual_start + execution_time
         completed == [completed_instances EXCEPT ![task] = instance + 1]
         triggered == Triggered(task, completed)
     IN /\ core_time' = [core_time EXCEPT ![affinity] = finish]
        /\ execution_log_core' =
             [execution_log_core EXCEPT
                ![affinity] = Append(@, FcfsEntry(actual_start, finish, task, instance, affinity))]
        /\ completed_instances' = completed
        /\ event_queue' =
             (event_queue \ {popped})
               \cup { <<finish, n, FcfsProps(n).execution_time, event_task_instance_counter[n]>>
                      : n \in triggered }
        /\ event_task_instance_counter' =
             [n \in FcfsNames |->
                IF n \in triggered THEN event_task_instance_counter[n] + 1
                ELSE event_task_instance_counter[n]]
  /\ UNCHANGED <<fcfs_runnables, fcfs_num_cores, simulation_time, fcfs_pc, fcfs_result,
                 kernel, logvars>>

\* the logs of the cores one after the other
RECURSIVE MergedFrom(_)
MergedFrom(c) ==
  IF c >= fcfs_num_cores THEN <<>> ELSE execution_log_core[c] \o MergedFrom(c + 1)

\* lines 74-82: the merged log sorted by start time, and max(core_time)
FcfsReturn ==
  /\ fcfs_pc = "loop"
  /\ event_queue = {}
  /\ LET merged_log == MergedFrom(0)
     IN fcfs_result' =
          [log |-> SortedByKey(merged_log, [x \in Range(merged_log) |-> <<x.start>>]),
           total_execution_time |-> MaxOf(Range(core_time), 0)]
  /\ fcfs_pc' = "done"
  /\ UNCHANGED <<fcfs_runnables, fcfs_num_cores, simulation_time, event_queue, core_time,
                 execution_log_core, completed_instances, event_task_instance_counter,
                 kernel, logvars>>

NextFcfs ==
  \/ FcfsSetup
  \/ FcfsRun
  \/ FcfsReturn

\* the calls of the model: A is periodic, B is periodic or an event on A, C is
\* an event on A, on B or on both; every runnable has its core
SimulationTime == 4

FcfsCores == 2

FcfsPeriods == {2, 4}

FcfsExecTimes == 1..2

FcfsNode(name, id, type, period, exec, affinity, deps) ==
  [name |-> name, id |-> id, type |-> type, period |-> period,
   execution_time |-> exec, affinity |-> affinity, deps |-> deps]

FcfsGraphs ==
  { <<a, b, c>> :
      a \in { FcfsNode("A", 1, "periodic", T, t, k, <<>>)
              : T \in FcfsPeriods, t \in FcfsExecTimes, k \in 0..(FcfsCores - 1) },
      b \in { FcfsNode("B", 2, "periodic", T, t, k, <<>>)
              : T \in FcfsPeriods, t \in FcfsExecTimes, k \in 0..(FcfsCores - 1) }
            \cup
            { FcfsNode("B", 2, "event", 0, t, k, <<1>>)
              : t \in FcfsExecTimes, k \in 0..(FcfsCores - 1) },
      c \in { FcfsNode("C", 3, "event", 0, t, k, deps)
              : t \in FcfsExecTimes, k \in 0..(FcfsCores - 1),
                deps \in { <<1>>, <<2>>, <<1, 2>> } } }

InitFcfs ==
  /\ NoKernelCall
  /\ NoLog
  /\ fcfs_runnables \in FcfsGraphs
  /\ fcfs_num_cores = FcfsCores
  /\ simulation_time = SimulationTime
  /\ fcfs_pc = "start"
  /\ event_queue = {}
  /\ core_time = <<>>
  /\ execution_log_core = <<>>
  /\ completed_instances = <<>>
  /\ event_task_instance_counter = <<>>
  /\ fcfs_result = <<>>

SpecFcfs == InitFcfs /\ [][NextFcfs]_vars

(***************************************************************************)
(* Properties of the emitted schedule.                                     *)
(***************************************************************************)
\* the number of entries of runnable n among the first j entries
CountBefore(n, j) == Cardinality({ k \in 1..j : schedule[k].runnable = n })

IsPeriodic(n) ==
  Props(runnables, n).type = "periodic" /\ Props(runnables, n).period > 0

IsEvent(n) == Props(runnables, n).type # "periodic"

\* C1: any two distinct entries on the same core have disjoint
\* [start_time, finish_time) intervals.
C1_CoreIntervalsDisjoint ==
  \A i, j \in DOMAIN schedule :
    (i < j /\ schedule[i].core = schedule[j].core)
      => \/ schedule[i].finish_time <= schedule[j].start_time
         \/ schedule[j].finish_time <= schedule[i].start_time

\* a core has run one entry and, after it, another one
C1_Witness ==
  /\ pc = "done"
  /\ \E i, j \in DOMAIN schedule :
       /\ i < j
       /\ schedule[i].core = schedule[j].core
       /\ schedule[i].runnable # schedule[j].runnable
       /\ schedule[i].finish_time = schedule[j].start_time

\* C2: when the i-th entry (0-based) of an event node n with predecessors is
\* emitted with start_time s, every predecessor of n already has at least i+1
\* entries with finish_time <= s.
C2_DependencyPrecedence ==
  \A j \in DOMAIN schedule :
    LET n == schedule[j].runnable
    IN (IsEvent(n) /\ predecessors[n] # <<>>)
         => \A p \in Range(predecessors[n]) :
              Cardinality({ k \in 1..(j - 1) :
                              /\ schedule[k].runnable = p
                              /\ schedule[k].finish_time <= schedule[j].start_time })
                >= CountBefore(n, j - 1) + 1

\* an event node behind two predecessors has run a second time
C2_Witness ==
  \E j \in DOMAIN schedule :
    /\ IsEvent(schedule[j].runnable)
    /\ Len(predecessors[schedule[j].runnable]) = 2
    /\ CountBefore(schedule[j].runnable, j - 1) >= 1

\* C4: the k-th entry (0-based) of a periodic node with period T > 0 has
\* start_time >= k * T.
C4_PeriodicNeverEarly ==
  \A j \in DOMAIN schedule :
    LET n == schedule[j].runnable
    IN IsPeriodic(n)
         => schedule[j].start_time >= CountBefore(n, j - 1) * Props(runnables, n).period

\* a later release of a periodic node was dispatched after its nominal instant
C4_Witness ==
  \E j \in DOMAIN schedule :
    LET n == schedule[j].runnable
    IN /\ IsPeriodic(n)
       /\ CountBefore(n, j - 1) >= 2
       /\ schedule[j].start_time > CountBefore(n, j - 1) * Props(runnables, n).period

\* C3: the run is a function of its arguments: every reachable state has
\* exactly one successor.  The one choice the code leaves open, the order in
\* which the set remaining_runnables is iterated, yields the same bounds for
\* every order, and in no state two different steps of the body are possible.
C3_Deterministic ==
  [][ /\ pc = "start"
           => \A order \in Orders(NameSet(runnables)) :
                compute_parallelism_bounds(runnables, num_cores, order)
                  = [p_max |-> p_max', n_min |-> n_min']
      /\ pc = "head" => ~(ENABLED Return /\ ENABLED LoopHead)
      /\ pc = "periodic" => ~(ENABLED PeriodicDefer /\ ENABLED PeriodicDispatch)
      /\ pc = "event"
           => LET noCore == ENABLED EventNoCore
                  horizon == ENABLED EventHorizon
                  delay == ENABLED EventDelay
                  dispatch == ENABLED EventDispatch
              IN /\ ~(noCore /\ horizon)
                 /\ ~(noCore /\ delay)
                 /\ ~(noCore /\ dispatch)
                 /\ ~(horizon /\ delay)
                 /\ ~(horizon /\ dispatch)
                 /\ ~(delay /\ dispatch) ]_vars

\* a run under static allocation, whose admissible cores come from the
\* bounds, has returned a schedule that uses two cores of a three-node graph
C3_Witness ==
  /\ pc = "done"
  /\ Len(runnables) = 3
  /\ Lower(allocation_policy) = "static"
  /\ \E i, j \in DOMAIN schedule : schedule[i].core # schedule[j].core

\* the runnables dispatched at the step at tau, once its dispatch loops are over
DispatchedNow ==
  { schedule[i].runnable : i \in { k \in DOMAIN schedule : schedule[k].start_time = tau } }

PriorityOf(n) == Props(runnables, n).priority

\* the dispatch loops of a PAS step with at least as many admissible cores as
\* eligible runnables are over
AmplePasStepOver ==
  /\ pc = "advance"
  /\ Lower(scheduling_policy) = "pas"
  /\ admissible >= Len(eligible)

\* C5 as stated: under PAS with ample cores, if a runnable of priority q is
\* dispatched at a step, every runnable eligible at that step with a priority
\* greater than q is dispatched at that step too.
C5_HigherPriorityDispatched ==
  AmplePasStepOver
    => \A x \in DispatchedNow : \A y \in Range(eligible) :
         PriorityOf(y) > PriorityOf(x) => y \in DispatchedNow

\* C5 as amended: every eligible periodic release with a greater priority is
\* dispatched, and when the dispatched runnable is an event, every eligible
\* event with a greater priority is dispatched too unless the event-delay rule
\* has moved its start behind tau.
C5_HigherPriorityWithinClass ==
  AmplePasStepOver
    => \A x \in DispatchedNow : \A y \in Range(eligible) :
         PriorityOf(y) > PriorityOf(x)
           => /\ y \in Range(ordered_eligible_periodic) => y \in DispatchedNow
              /\ (x \in Range(ordered_eligible_event) /\ y \in Range(ordered_eligible_event))
                   => (y \in DispatchedNow \/ start[y] > tau)

\* at a PAS step with ample cores two events of different priorities were
\* dispatched
C5_Witness ==
  /\ AmplePasStepOver
  /\ \E x, y \in DispatchedNow \cap Range(ordered_eligible_event) :
       PriorityOf(y) > PriorityOf(x)

\* the entry of runnable n that is number i (0-based) in emission order
EntryOf(n, i) ==
  schedule[CHOOSE k \in DOMAIN schedule :
             schedule[k].runnable = n /\ CountBefore(n, k - 1) = i]

\* the instant at which the instance of entry j became ready: a periodic
\* release is due at 0 and then one period after the dispatch before it; an
\* instance of an event with predecessors is ready when the last of the
\* predecessor instances it consumes has finished
ReadyInstant(j) ==
  LET n == schedule[j].runnable
      i == CountBefore(n, j - 1)
  IN IF IsPeriodic(n)
     THEN IF i = 0 THEN 0
          ELSE EntryOf(n, i - 1).start_time + Props(runnables, n).period
     ELSE MaxOf({ EntryOf(p, i).finish_time : p \in Range(predecessors[n]) }, 0)

\* C6: every entry's eligible_time is the instant at which its instance
\* became ready, and start_time >= eligible_time.
C6_EligibleTimeIsReadyInstant ==
  \A j \in DOMAIN schedule :
    LET n == schedule[j].runnable
    IN /\ schedule[j].start_time >= schedule[j].eligible_time
       /\ (IsPeriodic(n) \/ predecessors[n] # <<>>)
            => schedule[j].eligible_time = ReadyInstant(j)

\* the topology pass fails to drain all nodes
HasCycle(r) == DOMAIN runnable_path_length(r, NamesOf(r)) # NameSet(r)

\* C7: on a graph with a dependency cycle the run aborts with a graph error
\* before any entry is emitted: it emits nothing and does not return.
C7_CycleAborts ==
  HasCycle(runnables) => (schedule = <<>> /\ pc # "done")

KnownPolicies ==
  /\ Lower(scheduling_policy) \in {"fcfs", "pas"}
  /\ Lower(allocation_policy) \in {"static", "dynamic"}

\* C8: a scheduling_policy other than fcfs/pas or an allocation_policy other
\* than static/dynamic is rejected: the run emits no entry and does not return
\* a schedule made under some default policy.
C8_UnknownPolicyRejected ==
  ~KnownPolicies => (schedule = <<>> /\ pc # "done")

\* C9 as stated: when the run returns, the running set is empty.
C9_RunningEmptyAtReturn ==
  pc = "done" => DOMAIN running = {}

\* C9 as amended: when the run returns, tau has reached T_end and every
\* dispatched entry with finish_time <= tau has been completed: an entry left
\* in running finishes after tau, and its core is still held.
C9_OnlyLaterFinishesLeft ==
  pc = "done"
    => /\ tau >= T_end
       /\ \A k \in DOMAIN running :
            /\ running[k][1] > tau
            /\ running[k][2] \notin Range(idle_cores)
       /\ \A j \in DOMAIN schedule :
            schedule[j].finish_time <= tau
              => <<schedule[j].runnable, schedule[j].start_time>> \notin DOMAIN running

\* the run has returned with an entry still running and another one completed
C9_Witness ==
  /\ pc = "done"
  /\ DOMAIN running # {}
  /\ \E j \in DOMAIN schedule :
       <<schedule[j].runnable, schedule[j].start_time>> \notin DOMAIN running

\* C10 as stated: at the end of every iteration tau_next > tau.
C10_TauNextGreater ==
  [][pc = "advance" => tau' > tau]_vars

\* C10 as amended: tau never decreases, and at the end of every iteration
\* tau_next > tau, except in the last iteration of a run on one core whose
\* idle jump has set tau to inf because no release is pending: there
\* tau_next = tau = inf, nothing was dispatched at it and the loop is left.
C10_TauIncreases ==
  [][ /\ tau' >= tau
      /\ pc = "advance"
           => \/ tau' > tau
              \/ /\ tau = inf
                 /\ tau' = inf
                 /\ num_cores <= 1
                 /\ DOMAIN running = {}
                 /\ ~(tau' < T_end) ]_vars

\* an iteration has ended with a finite tau_next after the idle jump of a
\* run on one core moved tau forward within the iteration
C10_Witness ==
  /\ pc = "head"
  /\ num_cores = 1
  /\ tau > 0
  /\ tau < inf
  /\ \E i \in DOMAIN schedule :
       /\ schedule[i].finish_time = tau
       /\ \E j \in DOMAIN schedule :
            /\ j < i
            /\ schedule[j].finish_time < schedule[i].start_time

\* the positions of the entries emitted at the step at tau
EntriesNow == { k \in DOMAIN schedule : schedule[k].start_time = tau }

\* C11: within one step periodic runnables are offered the admissible cores
\* before any event runnable (an event entry is emitted at a step only if
\* every periodic release eligible at the step was dispatched, and none while
\* the periodic loop is running), and every periodic entry of the step
\* precedes every event entry of the step in the schedule.
C11_PeriodicBeforeEvents ==
  /\ \A i, j \in DOMAIN schedule :
       (/\ schedule[i].start_time = schedule[j].start_time
        /\ IsPeriodic(schedule[i].runnable)
        /\ IsEvent(schedule[j].runnable)) => i < j
  /\ pc = "periodic" => \A k \in EntriesNow : IsPeriodic(schedule[k].runnable)
  /\ (pc \in {"event", "advance"} /\ \E k \in EntriesNow : IsEvent(schedule[k].runnable))
       => Range(ordered_eligible_periodic) \subseteq DispatchedNow

\* at one step under PAS a periodic release and then an event of a greater
\* priority were dispatched
C11_Witness ==
  /\ pc = "advance"
  /\ Lower(scheduling_policy) = "pas"
  /\ \E i, j \in EntriesNow :
       /\ IsPeriodic(schedule[i].runnable)
       /\ IsEvent(schedule[j].runnable)
       /\ PriorityOf(schedule[j].runnable) > PriorityOf(schedule[i].runnable)

\* the number of admissible cores of a run under static allocation
c_alloc == Max2(1, Min2(num_cores, Min2(p_max, n_min)))

\* C12: under static allocation every entry has core < c_alloc, and the
\* admissible cores are cores below c_alloc at every instant: a core with
\* index >= c_alloc executes nothing, also while it is idle and a release
\* is deferred.
C12_StaticCoresBelowCAlloc ==
  (Lower(allocation_policy) = "static" /\ pc # "start")
    => /\ \A j \in DOMAIN schedule : schedule[j].core < c_alloc
       /\ \A k \in DOMAIN available_cores : available_cores[k] < c_alloc
       /\ \A k \in DOMAIN running : running[k][2] < c_alloc

\* under static allocation, after a dispatch, a release is about to be
\* deferred while a core that is not admissible is idle
C12_Witness ==
  /\ Lower(allocation_policy) = "static"
  /\ c_alloc < num_cores
  /\ schedule # <<>>
  /\ pc = "periodic"
  /\ available_cores = <<>>
  /\ \E k \in DOMAIN idle_cores : idle_cores[k] >= c_alloc

\* the sum of finish_time - start_time over the entries
DispatchedWork ==
  SumSeq([j \in DOMAIN schedule |-> schedule[j].finish_time - schedule[j].start_time])

\* the time the core of a run on one core is idle before entry j starts
IdleBefore(j) ==
  schedule[j].start_time - (IF j = 1 THEN 0 ELSE schedule[j - 1].finish_time)

\* C13 as stated: with num_cores = 1 the returned makespan equals the total
\* dispatched work.
C13_MakespanIsWork ==
  (pc = "done" /\ num_cores = 1) => finish_time = DispatchedWork

\* C13 as amended: with num_cores = 1 the entries are emitted one after the
\* other without overlap, and the returned makespan equals the total
\* dispatched work plus the time the core was idle before the last entry
\* started; it equals the work only if the core was never idle.
C13_MakespanIsWorkPlusIdle ==
  (pc = "done" /\ num_cores = 1)
    => /\ \A j \in DOMAIN schedule : schedule[j].core = 0 /\ IdleBefore(j) >= 0
       /\ finish_time
            = DispatchedWork + SumSeq([j \in DOMAIN schedule |-> IdleBefore(j)])

\* a run on one core has returned three or more entries without an idle
\* instant: its makespan is the dispatched work
C13_Witness ==
  /\ pc = "done"
  /\ num_cores = 1
  /\ Len(schedule) >= 3
  /\ finish_time = DispatchedWork

\* the entries of a schedule without their eligible_time
Entries(sched) ==
  [j \in DOMAIN sched |->
     <<sched[j].runnable, sched[j].start_time, sched[j].finish_time, sched[j].core>>]

\* C14: under static allocation, when c_alloc = 1 the schedule emitted with
\* num_cores >= 2 is the schedule emitted for the same graph, policies and I
\* with num_cores = 1, all entries on core 0.
C14_StaticOneCoreSameSchedule ==
  (/\ pc = "done"
   /\ prev # <<>>
   /\ Lower(allocation_policy) = "static"
   /\ c_alloc = 1
   /\ prev[1].c_alloc = 1)
    => /\ Entries(schedule) = Entries(prev[1].schedule)
       /\ finish_time = prev[1].finish_time
       /\ \A j \in DOMAIN schedule : schedule[j].core = 0

\* a graph with P_max = 2 and N_min = 1 was run under static allocation with
\* two or more cores, and then again with one core, and three or more
\* entries were emitted
C14_Witness ==
  /\ pc = "done"
  /\ prev # <<>>
  /\ Lower(allocation_policy) = "static"
  /\ c_alloc = 1
  /\ num_cores = 1
  /\ prev[1].num_cores >= 2
  /\ prev[1].c_alloc = 1
  /\ p_max = 2
  /\ Len(schedule) >= 3

\* no node is periodic and every node has a predecessor in the graph
NothingCanStart ==
  \A i \in DOMAIN runnables :
    /\ runnables[i].type # "periodic"
    /\ \E d \in Range(runnables[i].deps) : d \in NameSet(runnables)

\* C15: for a graph without a periodic node in which every event node has a
\* predecessor, nothing is ever emitted or delayed, and the run returns an
\* empty schedule, makespan 0 and total delay 0.
C15_NothingStartsNothingEmitted ==
  NothingCanStart
    => /\ schedule = <<>>
       /\ total_delay = 0
       /\ DOMAIN running = {}
       /\ finish_time = 0

\* the run on such a graph has gone through its loop and returned
C15_Witness ==
  /\ NothingCanStart
  /\ pc = "done"
  /\ tau >= T_end
  /\ T_end > 0
  /\ num_cores = 2
  /\ Lower(scheduling_policy) = "pas"
  /\ Lower(allocation_policy) = "dynamic"

\* the call of scenario S1 has returned
S1Returned ==
  /\ runnables = S1Graph
  /\ num_cores = 1
  /\ scheduling_policy = "fcfs"
  /\ allocation_policy = "static"
  /\ I = <<1>>
  /\ pc = "done"

\* C16: scenario S1 returns exactly (A, 0, 3, core 0), (B, 3, 5, core 0) and
\* makespan 5, with T_end = 5.
C16_ScenarioS1 ==
  S1Returned
    => /\ T_end = 5
       /\ Entries(schedule) = << <<"A", 0, 3, 0>>, <<"B", 3, 5, 0>> >>
       /\ finish_time = 5

\* scenario S1 has returned a schedule
C16_Witness == S1Returned /\ schedule # <<>>

\* the call of scenario S4 has returned
S4Returned ==
  /\ runnables = S4Graph
  /\ num_cores = 2
  /\ scheduling_policy = "fcfs"
  /\ allocation_policy = "dynamic"
  /\ I = <<1>>
  /\ pc = "done"

\* C17: scenario S4 returns exactly (A, 0, 2, core 0), (B, 0, 3, core 1),
\* (C, 3, 4, core 0) and makespan 4.
C17_ScenarioS4 ==
  S4Returned
    => /\ Entries(schedule) = << <<"A", 0, 2, 0>>, <<"B", 0, 3, 1>>, <<"C", 3, 4, 0>> >>
       /\ finish_time = 4

\* scenario S4 has returned a schedule that uses both cores
C17_Witness ==
  S4Returned /\ \E j \in DOMAIN schedule : schedule[j].core = 1

\* the call of scenario S5 has returned
S5Returned ==
  /\ runnables = S5Graph
  /\ num_cores = 1
  /\ allocation_policy = "dynamic"
  /\ I = <<3>>
  /\ pc = "done"

\* C18: scenario S5 returns exactly (A, 0, 2, core 0), (A, 5, 7, core 0),
\* with T_end = 6: the release due at 5 < T_end is dispatched although it
\* finishes after T_end.
C18_ScenarioS5 ==
  S5Returned
    => /\ T_end = 6
       /\ Entries(schedule) = << <<"A", 0, 2, 0>>, <<"A", 5, 7, 0>> >>

\* scenario S5 has returned an entry that finishes after T_end
C18_Witness ==
  S5Returned /\ \E j \in DOMAIN schedule : schedule[j].finish_time > T_end

\* one periodic source followed by a chain of one or more event nodes
IsChain(r) ==
  /\ Len(r) >= 2
  /\ r[1].type = "periodic"
  /\ \A i \in 2..Len(r) : r[i].type = "event" /\ r[i].deps = << r[i - 1].name >>

\* C19: for a chain, fixed policies and I, the makespan returned with
\* num_cores = c + 1 is at most the makespan returned with num_cores = c.
C19_MakespanMonotoneInCores ==
  (pc = "done" /\ prev # <<>> /\ IsChain(runnables))
    => /\ num_cores = prev[1].num_cores + 1 => finish_time <= prev[1].finish_time
       /\ prev[1].num_cores = num_cores + 1 => prev[1].finish_time <= finish_time

\* the dispatch loops of a step are over, nothing is running and no periodic
\* release lies in the future
Stalled ==
  /\ pc = "advance"
  /\ DOMAIN running = {}
  /\ NextActive(phi, tau) = inf

\* C20: the main loop terminates; at a step after which nothing is running
\* and no periodic release lies in the future the loop is left at once, and
\* the run returns the entries emitted so far with the largest finish_time
\* among them as makespan.
C20_LoopTerminates ==
  /\ <>(pc = "done")
  /\ [][Stalled => (pc' = "head" /\ ~(tau' < T_end) /\ schedule' = schedule)]_vars
  /\ [][(pc = "head" /\ ~(tau < T_end))
          => /\ pc' = "done"
             /\ schedule' = schedule
             /\ finish_time' = MaxOf({ schedule[j].finish_time : j \in DOMAIN schedule }, 0)]_vars

\* a run on two cores has returned after a stall before T_end: the last
\* entry finished before T_end and tau was moved to inf
C20_Witness ==
  /\ pc = "done"
  /\ num_cores = 2
  /\ tau = inf
  /\ schedule # <<>>
  /\ finish_time < T_end

\* C21: run_main_scheduler never modifies the caller's graph: no step of a
\* call changes the runnables mapping or a field of a node, nor any other
\* argument; the scheduler state is local to the call: every call starts from
\* tau = 0, an empty running set and schedule, no delay, all cores idle and
\* all tokens 0 whatever an earlier call did, and the result an earlier call
\* returned is not touched by a later one.
C21_GraphNotModified ==
  [][ /\ runnables' = runnables
      /\ scheduling_policy' = scheduling_policy
      /\ allocation_policy' = allocation_policy
      /\ I' = I
      /\ pc # "done" => (num_cores' = num_cores /\ prev' = prev)
      /\ pc = "start"
           => /\ tau' = 0
              /\ running' = EmptyDict
              /\ schedule' = <<>>
              /\ total_delay' = 0
              /\ idle_cores' = RangeList(num_cores)
              /\ DOMAIN phi' \cup DOMAIN eta' = NameSet(runnables)
              /\ \A n \in DOMAIN phi' : phi'[n] = 0
              /\ \A e \in DOMAIN tokens' : tokens'[e] = 0 ]_vars

\* a second call on the same three-node graph has returned entries, events
\* among them, after a first call that returned entries too
C21_Witness ==
  /\ pc = "done"
  /\ prev # <<>>
  /\ prev[1].schedule # <<>>
  /\ Len(runnables) = 3
  /\ \E j \in DOMAIN schedule : IsEvent(schedule[j].runnable)

\* the number of entries of runnable n emitted so far
Dispatched(n) == Cardinality({ j \in DOMAIN schedule : schedule[j].runnable = n })

\* the number of entries of runnable n that the completion loop has taken out
\* of running
Completed(n) ==
  Cardinality({ j \in DOMAIN schedule :
                  /\ schedule[j].runnable = n
                  /\ <<n, schedule[j].start_time>> \notin DOMAIN running })

\* C22: at every step and for every edge (p, n), tokens[(p, n)] >= 0 and
\* equals the number of completed instances of p minus the number of
\* dispatched instances of n; a dispatch of an event takes exactly one token
\* from each of its incoming edges and from no other edge, and a completion
\* adds exactly one token to each outgoing edge of the completed runnable and
\* to no other edge.
C22_TokenAccounting ==
  /\ [](\A e \in DOMAIN tokens :
          /\ tokens[e] >= 0
          /\ tokens[e] = Completed(e[1]) - Dispatched(e[2]))
  /\ [][ /\ (pc = "event" /\ schedule' # schedule)
             => LET name == schedule'[Len(schedule')].runnable
                IN \A e \in DOMAIN tokens :
                     tokens'[e] = IF e[2] = name THEN tokens[e] - 1 ELSE tokens[e]
         /\ (pc = "advance")
             => \A e \in DOMAIN tokens :
                  tokens'[e] = IF \E k \in DOMAIN running \ DOMAIN running' : k[1] = e[1]
                               THEN tokens[e] + 1 ELSE tokens[e]
         /\ (pc \in {"head", "periodic"} \/ (pc = "event" /\ schedule' = schedule))
             => tokens' = tokens ]_vars

\* an event behind two predecessors was dispatched, and one of its incoming
\* edges holds more tokens than the other
C22_Witness ==
  \E n \in DOMAIN predecessors :
    /\ Len(predecessors[n]) = 2
    /\ Dispatched(n) >= 1
    /\ tokens[<<predecessors[n][1], n>>] # tokens[<<predecessors[n][2], n>>]
    /\ \E k \in 1..2 : tokens[<<predecessors[n][k], n>>] >= 2

\* the earliest pending periodic release instant
EarliestRelease == MinOf({ phi[n] : n \in DOMAIN phi }, inf)

\* C23: an event entry emitted at tau while a periodic release is pending
\* finishes no later than the earliest pending release instant; an event the
\* loop reaches with an admissible core and within the horizon that would
\* finish later is not dispatched at that step, keeps its tokens, and has its
\* start moved to next_active + execution_time of the first pending periodic,
\* the shift being added to the total delay.
C23_EventDelayRule ==
  [][ pc = "event"
        => LET name == ordered_eligible_event[idx]
               t_i == Props(runnables, name).execution_time
           IN /\ (schedule' # schedule /\ DOMAIN phi # {})
                   => /\ schedule'[Len(schedule')].runnable = name
                      /\ schedule'[Len(schedule')].start_time = tau
                      /\ schedule'[Len(schedule')].finish_time <= EarliestRelease
              /\ (/\ sorted_available_cores # <<>>
                  /\ tau + t_i <= T_end
                  /\ DOMAIN phi # {}
                  /\ tau + t_i > EarliestRelease)
                   => /\ schedule' = schedule
                      /\ tokens' = tokens
                      /\ running' = running
                      /\ start'[name]
                           = next_active + Props(runnables, FirstPhiKey).execution_time
                      /\ total_delay' = total_delay + (start'[name] - tau) ]_vars

\* at one step, with a release pending, one event was dispatched and another
\* one was moved behind the next activation
C23_Witness ==
  /\ pc = "advance"
  /\ DOMAIN phi # {}
  /\ \E k \in EntriesNow : IsEvent(schedule[k].runnable)
  /\ \E n \in Range(ordered_eligible_event) : start[n] > tau
  /\ total_delay > 0

\* C24: T_end is I * W when I is given and 2 * W otherwise; no entry has
\* start_time >= T_end, and every entry of an event runnable has
\* finish_time <= T_end: only an entry of a periodic runnable may finish
\* after T_end.
C24_HorizonBound ==
  pc # "start"
    => /\ T_end = (IF I = <<>> THEN 2 ELSE I[1])
                     * SumSeq([i \in DOMAIN runnables |-> runnables[i].execution_time])
       /\ \A j \in DOMAIN schedule :
            /\ schedule[j].start_time < T_end
            /\ IsEvent(schedule[j].runnable) => schedule[j].finish_time <= T_end

\* a run has returned an entry of a periodic runnable that finishes after
\* T_end and an entry of an event that finishes at T_end, and an event was
\* left undispatched at the last step
C24_Witness ==
  /\ pc = "done"
  /\ \E j \in DOMAIN schedule :
       IsPeriodic(schedule[j].runnable) /\ schedule[j].finish_time > T_end
  /\ \E j \in DOMAIN schedule :
       IsEvent(schedule[j].runnable) /\ schedule[j].finish_time = T_end
  /\ \E n \in Range(ordered_eligible_event) : n \notin DispatchedNow

AdmissibleIdle ==
  { c \in Range(idle_cores) :
      /\ c \in 0..(num_cores - 1)
      /\ Lower(allocation_policy) = "static" => c < c_alloc }

\* C26: every dispatch assigns the smallest-index core that is admissible at
\* that moment: the smallest idle index in [0, num_cores) under dynamic
\* allocation, the smallest idle index in [0, c_alloc) under static
\* allocation; the core leaves idle_cores with the dispatch.
C26_SmallestAdmissibleCore ==
  [][ (pc \in {"periodic", "event"} /\ schedule' # schedule)
        => LET e == schedule'[Len(schedule')]
           IN /\ Len(schedule') = Len(schedule) + 1
              /\ AdmissibleIdle # {}
              /\ e.core = MinOf(AdmissibleIdle, 0)
              /\ e.core \notin Range(idle_cores') ]_vars

\* an entry was dispatched on core 1 while core 0 was busy, and a later one
\* on core 0 while core 1 was busy
C26_Witness ==
  \E i, j, k \in DOMAIN schedule :
    /\ i < j /\ j < k
    /\ schedule[i].core = 0
    /\ schedule[j].core = 1
    /\ schedule[k].core = 0
    /\ schedule[i].start_time < schedule[j].start_time
    /\ schedule[j].start_time < schedule[i].finish_time
    /\ schedule[j].start_time < schedule[k].start_time
    /\ schedule[k].start_time < schedule[j].finish_time

\* every one of the num_cores cores is held by a running entry
AllCoresBusy ==
  /\ idle_cores = <<>>
  /\ { running[k][2] : k \in DOMAIN running } = 0..(num_cores - 1)

\* the event at position i of the ordered list, or one before it, stopped the
\* for loop at the horizon test
StoppedAtHorizon(i) ==
  \E k \in 1..i :
    tau + Props(runnables, ordered_eligible_event[k]).execution_time > T_end

\* C27: under dynamic allocation there is no admission cap below num_cores:
\* a periodic release is deferred, and the for loop over the events is left
\* for lack of a core, only when every one of the num_cores cores is busy;
\* an eligible event left undispatched at the end of a step was moved by the
\* event-delay rule, stopped at the horizon, or found all cores busy.
C27_DynamicNoCap ==
  Lower(allocation_policy) = "dynamic"
    => /\ (pc = "periodic" /\ available_cores = <<>>) => AllCoresBusy
       /\ (pc = "event" /\ sorted_available_cores = <<>>) => AllCoresBusy
       /\ pc = "advance"
            => \A i \in DOMAIN ordered_eligible_event :
                 LET n == ordered_eligible_event[i]
                 IN n \notin DispatchedNow
                      => \/ start[n] > tau
                         \/ StoppedAtHorizon(i)
                         \/ AllCoresBusy

\* under dynamic allocation with two cores an eligible event finds no core:
\* both cores are busy
C27_Witness ==
  /\ Lower(allocation_policy) = "dynamic"
  /\ num_cores = 2
  /\ pc = "event"
  /\ sorted_available_cores = <<>>
  /\ Cardinality(DOMAIN running) = 2

\* the cores held by the entries of running, one element per entry
RunningCores == [k \in DOMAIN running |-> running[k][2]]

\* C28: after every step idle_cores is an ascending list without
\* duplicates, the cores held by running entries are pairwise distinct,
\* idle_cores and the cores of the running entries partition
\* [0, num_cores), and under static allocation available_cores is idle_cores
\* restricted to [0, c_alloc).
C28_CorePool ==
  pc # "start"
    => /\ \A i, j \in DOMAIN idle_cores : i < j => idle_cores[i] < idle_cores[j]
       /\ \A k, l \in DOMAIN running : k # l => RunningCores[k] # RunningCores[l]
       /\ Range(idle_cores) \cap Range(RunningCores) = {}
       /\ Range(idle_cores) \cup Range(RunningCores) = 0..(num_cores - 1)
       /\ Lower(allocation_policy) = "static"
            => available_cores = SelectSeq(idle_cores, LAMBDA c : c < c_alloc)

\* under static allocation with two admissible cores, core 0 has come back
\* to the pool after a completion while core 1 is still held
C28_Witness ==
  /\ pc = "head"
  /\ Lower(allocation_policy) = "static"
  /\ c_alloc = 2
  /\ idle_cores = <<0>>
  /\ available_cores = <<0>>
  /\ \E k \in DOMAIN running : running[k][2] = 1
  /\ \E j \in DOMAIN schedule :
       schedule[j].core = 0 /\ schedule[j].finish_time = tau

\* the instant at which the pending instance of n, the one the next entry of
\* n will run, became ready: see ReadyInstant
PendingReadyInstant(n) ==
  LET i == Dispatched(n)
  IN IF IsPeriodic(n)
     THEN IF i = 0 THEN 0
          ELSE EntryOf(n, i - 1).start_time + Props(runnables, n).period
     ELSE MaxOf({ EntryOf(p, i).finish_time : p \in Range(predecessors[n]) }, 0)

\* the list is in first-come-first-served order: by the instant the pending
\* instance became ready, ties by name
FcfsOrdered(list) ==
  \A a, b \in DOMAIN list :
    a < b => \/ PendingReadyInstant(list[a]) < PendingReadyInstant(list[b])
             \/ /\ PendingReadyInstant(list[a]) = PendingReadyInstant(list[b])
                /\ NameRank[list[a]] < NameRank[list[b]]

\* the periodic releases of a step have been ordered and none is dispatched yet
PeriodicOrdered == pc = "periodic" /\ idx = 1

\* the events of a step have been ordered and none is dispatched yet
EventsOrdered ==
  /\ pc = "event"
  /\ idx = 1
  /\ \A k \in DOMAIN ordered_eligible_event :
       predecessors[ordered_eligible_event[k]] # <<>>

\* C29: under FCFS, of two eligible runnables of the same class that compete
\* at a step the one whose pending instance became ready earlier is ordered
\* first, ties broken by name, also when a periodic release was deferred
\* from an earlier instant and when a predecessor of an event completed
\* again while its instance was pending.
C29_FirstComeFirstServed ==
  Lower(scheduling_policy) = "fcfs"
    => /\ PeriodicOrdered => FcfsOrdered(ordered_eligible_periodic)
       /\ EventsOrdered => FcfsOrdered(ordered_eligible_event)

\* C30: the idle-then-jump shortcut never changes the result: it moves tau
\* only when num_cores <= 1, never past the finish of a running entry, and
\* never to an instant >= T_end at which something is then dispatched; for
\* num_cores = 1 the schedule, makespan and total delay of the call equal
\* those of the same kernel with the shortcut removed.
C30_JumpChangesNothing ==
  /\ [][ (pc = "head" /\ prev = <<>> /\ tau' # tau)
           => /\ num_cores <= 1
              /\ tau' = next_active
              /\ eligible_event' = <<>>
              /\ \A k \in DOMAIN running : running[k][1] >= tau'
              /\ ~(tau' < T_end) => ordered_eligible_periodic' = <<>> ]_vars
  /\ [](( pc = "done" /\ prev # <<>>)
          => /\ schedule = prev[1].schedule
             /\ finish_time = prev[1].finish_time
             /\ total_delay = prev[1].total_delay)

\* both kernels have returned the schedule of a call on one core in which
\* the core was idle before an entry, the instant the shortcut jumps to,
\* and in which an event ran
C30_Witness ==
  /\ pc = "done"
  /\ prev # <<>>
  /\ num_cores = 1
  /\ \E j \in DOMAIN schedule : j > 1 /\ IdleBefore(j) > 0
  /\ \E j \in DOMAIN schedule : IsEvent(schedule[j].runnable)
  /\ total_delay > 0

\* C31: whenever static allocation admits every core (c_alloc = num_cores),
\* the call under dynamic allocation returns the schedule, the makespan and
\* the total delay of the call under static allocation for the same graph,
\* num_cores, ordering policy and I.
C31_StaticAllCoresIsDynamic ==
  (pc = "done" /\ prev # <<>> /\ prev[1].c_alloc = num_cores)
    => /\ Lower(allocation_policy) = "dynamic"
       /\ schedule = prev[1].schedule
       /\ finish_time = prev[1].finish_time
       /\ total_delay = prev[1].total_delay

\* both calls have returned for a graph with c_alloc = num_cores = 2: five
\* or more entries on both cores, and releases or events were delayed
C31_Witness ==
  /\ pc = "done"
  /\ prev # <<>>
  /\ num_cores = 2
  /\ prev[1].c_alloc = 2
  /\ Len(schedule) >= 5
  /\ \E j \in DOMAIN schedule : schedule[j].core = 1
  /\ \E j \in DOMAIN schedule : IsEvent(schedule[j].runnable)
  /\ total_delay > 0

\* C32: the emitted schedule does not depend on the order in which the nodes
\* are listed in the input mapping: the call on the mapping with the same
\* nodes in another insertion order returns the identical sequence of
\* entries, makespan and total delay.
C32_InsertionOrderIrrelevant ==
  (pc = "done" /\ prev # <<>>)
    => /\ schedule = prev[1].schedule
       /\ finish_time = prev[1].finish_time
       /\ total_delay = prev[1].total_delay

\* the call on a mapping of three nodes that lists A last has returned, and
\* at one step two events with equal sort keys up to the name were
\* dispatched
C32_Witness ==
  /\ pc = "done"
  /\ prev # <<>>
  /\ Len(runnables) = 3
  /\ runnables[3].name = "A"
  /\ \E i, j \in DOMAIN schedule :
       /\ i < j
       /\ IsEvent(schedule[i].runnable)
       /\ IsEvent(schedule[j].runnable)
       /\ schedule[i].start_time = schedule[j].start_time
       /\ PriorityOf(schedule[i].runnable) = PriorityOf(schedule[j].runnable)

\* every source of the graph is a periodic node: no event node is without deps
SourcesPeriodic ==
  \A i \in DOMAIN runnables :
    runnables[i].type = "periodic" \/ runnables[i].deps # <<>>

\* a call under dynamic allocation with a core per node and the default horizon
AmpleDynamicCall ==
  /\ Lower(allocation_policy) = "dynamic"
  /\ num_cores >= Len(runnables)
  /\ I = <<>>
  /\ SourcesPeriodic
  /\ ~HasCycle(runnables)

\* no period is shorter than the default horizon 2 * W
SingleRelease ==
  \A i \in DOMAIN runnables :
    runnables[i].type = "periodic"
      => runnables[i].period >= 2 * compute_total_work(runnables)

\* C33 as stated: under dynamic allocation with num_cores >= number of nodes
\* and the default horizon, every event node of an acyclic graph whose source
\* ancestors are all periodic has an entry in the returned schedule.
C33_NoEventStarved ==
  (pc = "done" /\ AmpleDynamicCall)
    => \A i \in DOMAIN runnables :
         IsEvent(runnables[i].name) => Dispatched(runnables[i].name) >= 1

\* C33: under dynamic allocation with num_cores >= number of nodes and the
\* default horizon, when no period is shorter than the horizon (every periodic
\* node is released once), every event node of an acyclic graph whose source
\* ancestors are all periodic is dispatched exactly once during the run.
C33_NoEventStarvedSingleRelease ==
  (pc = "done" /\ AmpleDynamicCall /\ SingleRelease)
    => \A i \in DOMAIN runnables :
         IsEvent(runnables[i].name) => Dispatched(runnables[i].name) = 1

\* a run of a chain of two events behind a periodic node released once has
\* returned on three cores, with the three entries one after the other
C33_Witness ==
  /\ pc = "done"
  /\ AmpleDynamicCall
  /\ SingleRelease
  /\ Len(runnables) = 3
  /\ Len(schedule) = 3
  /\ IsEvent("B") /\ IsEvent("C")
  /\ runnables[3].deps = <<"B">>
  /\ schedule[2].runnable = "B"
  /\ schedule[3].runnable = "C"
  /\ schedule[3].start_time = schedule[2].finish_time

\* the dependency paths of r from a node without predecessors to a node
\* without successors, as sequences of names
PathsOf(r) ==
  LET topo == topology(r)
  IN UNION { { q \in [1..len -> NameSet(r)] :
                 /\ topo.predecessors[q[1]] = <<>>
                 /\ topo.successors[q[len]] = <<>>
                 /\ \A k \in 1..(len - 1) : q[k] \in Range(topo.predecessors[q[k + 1]]) }
             : len \in 1..Len(r) }

\* the largest sum of execution_time along a path, 0 without a path
LongestPath(r) ==
  MaxOf({ SumSeq([k \in DOMAIN q |-> Props(r, q[k]).execution_time]) : q \in PathsOf(r) }, 0)

\* C34: for every acyclic graph the critical-path length T_CP computed in
\* compute_parallelism_bounds equals the maximum over all dependency paths
\* from a source to a sink of the sum of execution_time of the nodes on the
\* path (0 for the empty graph), in whatever order the nodes are iterated; the
\* n_min a call has computed is the one this length gives.
C34_CriticalPathIsLongestPath ==
  /\ (pc = "start" /\ ~HasCycle(runnables))
       => \A order \in Orders(NameSet(runnables)) :
            T_CP(runnables, order) = LongestPath(runnables)
  /\ (pc = "head" /\ tau = 0 /\ ~HasCycle(runnables))
       => n_min = calculate_min_core_count(num_cores, compute_total_work(runnables),
                                           LongestPath(runnables))

\* the bounds of a diamond have been computed: the longest path goes through
\* B and is 5 of the 6 units of work, which gives n_min = 2
C34_Witness ==
  /\ pc = "head"
  /\ tau = 0
  /\ Len(runnables) = 4
  /\ runnables[4].deps = <<"B", "C">>
  /\ runnables[2].execution_time = 2
  /\ runnables[3].execution_time = 1
  /\ compute_total_work(runnables) = 6
  /\ LongestPath(runnables) = 5
  /\ n_min = 2

\* the nodes that start the level-synchronous execution
FrontierZero(r) ==
  { n \in NameSet(r) : Props(r, n).type = "periodic" \/ topology(r).predecessors[n] = <<>> }

\* frontier k of the level-synchronous execution on unbounded cores, and the
\* nodes completed when frontier k has run
RECURSIVE Frontier(_, _)
RECURSIVE CompletedThrough(_, _)
Frontier(r, k) ==
  IF k = 0 THEN FrontierZero(r)
  ELSE LET completed == CompletedThrough(r, k - 1)
       IN { s \in NameSet(r) \ completed :
              /\ topology(r).predecessors[s] # <<>>
              /\ Range(topology(r).predecessors[s]) \subseteq completed }

CompletedThrough(r, k) ==
  IF k = 0 THEN Frontier(r, 0) ELSE CompletedThrough(r, k - 1) \cup Frontier(r, k)

LargestFrontier(r) == MaxOf({ Cardinality(Frontier(r, k)) : k \in 0..Len(r) }, 0)

InOneFrontier(r) ==
  \A n \in NameSet(r) : Cardinality({ k \in 0..Len(r) : n \in Frontier(r, k) }) = 1

Steps(t, at) ==
  /\ InCall(t)
  /\ Len(frames[t]) = 1
  /\ Top(t).pc = at
  /\ frames'[t] # frames[t]

\* C36: the log is bounded: it never holds more than max_size entries, and
\* get_log returns exactly the last min(k, max_size) of the k entries appended
\* so far, in the order in which they were appended; what get_log returns is a
\* copy: a later append does not change it, and the caller changing it does
\* not change the log, which changes by the store of an append alone.
C36_BoundedLogCopy ==
  /\ [](Len(log) <= max_size /\ log = LastN(stored, max_size))
  /\ [][\A t \in Threads :
          /\ Steps(t, "copy")
               => /\ returned'[t].obj = "list"
                  /\ Len(Items(t)') <= max_size
                  /\ Items(t)' = LastN(stored, max_size)
          /\ returned'[t] = returned[t] => Items(t)' = Items(t)]_vars
  /\ [][log' # log
          => \E t \in Threads :
               InCall(t) /\ Top(t).pc = "store" /\ frames'[t] # frames[t]]_vars

\* a thread holds the list of the last two of three appended entries while
\* the log has been appended to since
C36_Witness ==
  \E t \in Threads :
    /\ max_size = 2
    /\ ~InCall(t)
    /\ returned[t].obj = "list"
    /\ Len(returned[t].items) = 2
    /\ Len(stored) = 3
    /\ returned[t].items = SubSeq(stored, 1, 2)
    /\ log = SubSeq(stored, 2, 3)

\* the position of entry e in the order of storing
StoredAt(e) == CHOOSE k \in DOMAIN stored : stored[k] = e

\* the number of invocations of callback c with entry e
Invocations(c, e) ==
  Cardinality({ a \in DOMAIN invoked : invoked[a] = <<c, e>> })

\* C37: append is thread-safe: with appends of several threads in progress no
\* entry is stored twice and none is lost (an append that is past its store
\* has its entry in the history exactly once, and the deque holds the last
\* max_size of them once each); the callbacks are called with stored entries
\* only and each callback sees the entries in the order in which they were
\* stored; when an append returns, every callback that was registered before
\* the append began has been invoked exactly once with its entry.
C37_ThreadSafeAppend ==
  /\ [](/\ \A a, b \in DOMAIN stored : a # b => stored[a] # stored[b]
        /\ \A a, b \in DOMAIN log : a # b => log[a] # log[b]
        /\ \A t \in Threads :
             InCall(t) /\ frames[t][1].op = "append"
               => (frames[t][1].pc \in {"lock", "store"}
                     <=> frames[t][1].entry \notin Range(stored))
        /\ \A a \in DOMAIN invoked : invoked[a][2] \in Range(stored)
        /\ \A a, b \in DOMAIN invoked :
             (a < b /\ invoked[a][1] = invoked[b][1])
               => StoredAt(invoked[a][2]) < StoredAt(invoked[b][2]))
  /\ [][\A t \in Threads :
          (Steps(t, "callbacks") /\ ~InCall(t)')
            => /\ Top(t).entry \in Range(stored)
               /\ \A c \in 1..Top(t).reg : Invocations(c, Top(t).entry) = 1]_vars

\* appends of both threads have returned, the second thread's stored first,
\* and the callback registered before them was called with each entry in the
\* order of storing
C37_Witness ==
  /\ callbacks = <<"record">>
  /\ \A t \in Threads : ~InCall(t)
  /\ stored = << <<2, 1>>, <<1, 1>> >>
  /\ invoked = << <<1, <<2, 1>> >>, <<1, <<1, 1>> >> >>
  /\ log = stored

\* C38 as stated: an append never blocks forever, also when a callback calls
\* get_log or append on the same log: every call of append returns.
C38_AppendReturns ==
  \A t \in Threads :
    (InCall(t) /\ frames[t][1].op = "append") ~> ~InCall(t)

(***************************************************************************)
(* Properties of run_fcfs_affinity.                                        *)
(***************************************************************************)
\* the entries logged so far
FcfsEntries ==
  UNION { Range(execution_log_core[c]) : c \in DOMAIN execution_log_core }

\* C39: in run_fcfs_affinity an event task runs on completed dependencies
\* only: instance k of an event task starts no earlier than the finish time
\* of instance k of each of its dependencies, on whatever core the dependency
\* ran.
C39_EventAfterDependencies ==
  \A e \in FcfsEntries :
    FcfsProps(e.task).type = "event"
      => \A k \in DOMAIN FcfsProps(e.task).deps :
           \E d \in FcfsEntries :
             /\ d.task = id_to_name(FcfsProps(e.task).deps[k])
             /\ d.instance = e.instance
             /\ d.finish <= e.start

====
